---- MODULE Spec2Model ----
(***************************************************************************)
(* MeGPT: the turn-processing graph of agent_graph.py (recall, reason,     *)
(* tools, respond, memorize), the context policy of database.py and the    *)
(* memory write path of tools/memory_tool.py.                              *)
(*                                                                         *)
(* Text is modelled as a sequence of tokens: the empty text is <<>>,       *)
(* string formatting is concatenation of token sequences.                  *)
(***************************************************************************)
EXTENDS Integers, Sequences, FiniteSets, TLC

VARIABLES
    messages,         \* AgentState.messages
    user_input,       \* AgentState.user_input
    chat_id,          \* AgentState.chat_id
    context,          \* AgentState.context
    final_response,   \* AgentState.final_response
    tool_call_count,  \* AgentState.tool_call_count
    pc,               \* the node the graph runs next
    trace,            \* the nodes run so far, in order
    llm_log,          \* one record per language-model invocation of the turn
    capped_events,    \* number of "Max tool calls reached" warnings printed
    refused,          \* the guard sent a turn to respond with pending tool calls
    executed,         \* tool-call ids run by the ToolNode, in order
    memory,           \* points of the vector store
    user_id,          \* owner of the turn
    env,              \* outcomes of the services recall calls in this turn
    recall_log,       \* what classification and context assembly returned
    memorize_log,     \* how far the memory write of the turn got
    background_tasks, \* sessions whose summarizer run is scheduled, in order
    stored_summary,   \* the summary column of the session
    stream_log,       \* what the end of stream_response and the summarizer saw
    db,               \* content of the transcript database file
    collection,       \* the vector collection: its dimension and its points
    files,            \* the snapshot files of the backup directory, by name
    manifest,         \* the persisted backup manifest, newest entry first
    clock,            \* the wall clock, in seconds
    backup_log,       \* the durability operation of this step and what it returned
    delete_log,       \* the session delete of this step and what it returned
    turns,            \* the graph runs in flight: state dict, position, replies seen
    retry,            \* the retried client call in progress and what it did so far
    backup_run        \* a create_backup call in progress, step by step, and the transcript

vars == <<messages, user_input, chat_id, context, final_response,
          tool_call_count, pc, trace, llm_log, capped_events, refused,
          executed, memory, user_id, env, recall_log,
          memorize_log, background_tasks, stored_summary, stream_log,
          db, collection, files, manifest, clock, backup_log, delete_log,
          turns, retry, backup_run>>

(* State written outside the graph run of a turn *)
stream_vars == <<background_tasks, stored_summary, stream_log>>

backup_vars == <<db, collection, files, manifest, clock, backup_log>>

(* State of the components around the turn *)
service_vars == <<delete_log, turns, retry, backup_run>>

outside_turn == <<stream_vars, backup_vars, service_vars>>

-----------------------------------------------------------------------------
(* Bounds of the model *)

MaxCalls == 2
MaxHist == 2
MaxTurns == 2

(* Program constants *)

MAX_TOOL_CALLS == 3
MAX_HISTORY == 3

-----------------------------------------------------------------------------
(* Messages *)

NoId == <<>>
None == "None"

HumanMessage(c) ==
    [type |-> "human", content |-> c, tool_calls |-> <<>>, tool_call_id |-> NoId]

AIMessage(c, calls) ==
    [type |-> "ai", content |-> c, tool_calls |-> calls, tool_call_id |-> NoId]

SystemMessage(c) ==
    [type |-> "system", content |-> c, tool_calls |-> <<>>, tool_call_id |-> NoId]

ToolMessage(c, id) ==
    [type |-> "tool", content |-> c, tool_calls |-> <<>>, tool_call_id |-> id]

Last(s) == s[Len(s)]

Front(s) == SubSeq(s, 1, Len(s) - 1)

(* server.convert_messages: one API message to one LangChain message *)
convert_message(role) ==
    CASE role = "user" -> HumanMessage(<<"old question">>)
      [] role = "assistant" -> AIMessage(<<"old answer">>, <<>>)
      [] role = "system" -> SystemMessage(<<"client system text">>)

(* The client sends either the current input alone or MaxHist earlier messages
   before it; stream_response keeps the last MAX_HISTORY of them at most *)
ClientConversation == <<"user", "assistant", "system">>

Min(a, b) == IF a < b THEN a ELSE b

truncate(recent_messages, limit) ==
    IF Len(recent_messages) > limit
    THEN SubSeq(recent_messages, Len(recent_messages) - limit + 1, Len(recent_messages))
    ELSE recent_messages

convert_messages(roles) == [i \in 1..Len(roles) |-> convert_message(roles[i])]

Histories ==
    {convert_messages(truncate(truncate(ClientConversation, n), MAX_HISTORY)) :
        n \in {0, MaxHist}}

UserInputs == {<<>>, <<"question">>}

ChatIds == {None, "c1"}

-----------------------------------------------------------------------------
(* Durable transcript store, as read by recall *)

StoredSummary == <<"rolling summary">>

StoredTranscript == <<"USER: m1", "ASSISTANT: m2", "USER: m3", "ASSISTANT: m4", "USER: m5", "ASSISTANT: m6">>

get_summary(chat) == StoredSummary

get_recent_messages_text(chat, limit) ==
    SubSeq(StoredTranscript, Len(StoredTranscript) - limit + 1, Len(StoredTranscript))

(* Categories of the classification prompt, and the default *)
Intents == {"overview", "followup", "factual", "new_topic", "general"}

-----------------------------------------------------------------------------
(* Intent classifier: database.classify_query_intent.  The text of the
   model's reply is a sequence of tokens, each token a tuple of strings. *)

FENCE == <<"[code fence]">>
JSON_TAG == <<"json">>
OPEN == <<"{">>
CLOSE == <<"}">>
PROSE == <<"Sure, here is the classification:">>
ARRAY_OPEN == <<"[">>
ARRAY_CLOSE == <<"]">>
STRING_VALUE == <<"\"factual\"">>

IntentField(i) == <<"intent", i>>

NeedsHistoryField(b) == <<"needs_history", IF b THEN "true" ELSE "false">>

ObjectText(i, b) == <<OPEN, IntentField(i), NeedsHistoryField(b), CLOSE>>

(* Values json.loads can return, and its failure *)
JsonObject(keys, i, b) ==
    [raised |-> FALSE, kind |-> "object", keys |-> keys, intent |-> i, needs_history |-> b]

JsonOther(kind) ==
    [raised |-> FALSE, kind |-> kind, keys |-> {}, intent |-> "", needs_history |-> FALSE]

JsonDecodeError ==
    [raised |-> TRUE, kind |-> "error", keys |-> {}, intent |-> "", needs_history |-> FALSE]

IsField(tok) == Len(tok) = 2 /\ tok[1] \in {"intent", "needs_history"}

FieldValue(toks, key) ==
    LET at == {k \in 1..Len(toks) : toks[k][1] = key}
    IN  toks[CHOOSE k \in at : \A j \in at : j <= k][2]

json_loads(content) ==
    IF /\ Len(content) >= 2
       /\ content[1] = OPEN
       /\ Last(content) = CLOSE
       /\ \A k \in 2..(Len(content) - 1) : IsField(content[k])
    THEN LET fields == SubSeq(content, 2, Len(content) - 1)
             keys == {fields[k][1] : k \in 1..Len(fields)}
         IN  JsonObject(keys,
                        IF "intent" \in keys THEN FieldValue(fields, "intent") ELSE "",
                        "needs_history" \in keys /\ FieldValue(fields, "needs_history") = "true")
    ELSE IF content = <<ARRAY_OPEN, ARRAY_CLOSE>> THEN JsonOther("array")
    ELSE IF content = <<STRING_VALUE>> THEN JsonOther("string")
    ELSE JsonDecodeError

(* content.split(fence)[1]: the text between the first fence and the next
   one, or the end of the text *)
FencePositions(content) == {k \in 1..Len(content) : content[k] = FENCE}

split_second(content) ==
    LET first == CHOOSE k \in FencePositions(content) :
                     \A j \in FencePositions(content) : k <= j
        later == {k \in FencePositions(content) : k > first}
        stop == IF later = {} THEN Len(content) + 1
                ELSE CHOOSE k \in later : \A j \in later : k <= j
    IN  SubSeq(content, first + 1, stop - 1)

strip_fence(content) ==
    IF FencePositions(content) = {} THEN content
    ELSE LET inner == split_second(content)
         IN  IF inner # <<>> /\ inner[1] = JSON_TAG THEN Tail(inner) ELSE inner

DefaultIntent == JsonObject({"intent", "needs_history"}, "general", TRUE)

(* classify_query_intent falling back to the policy without history *)
classify_query_intent_default_new_topic(response) ==
    IF \/ response.call # "ok"
       \/ response.status # 200
       \/ ~ response.envelope
       \/ json_loads(strip_fence(response.content)).raised
    THEN JsonObject({"intent", "needs_history"}, "new_topic", FALSE)
    ELSE json_loads(strip_fence(response.content))

classify_query_intent(response) ==
    IF \/ response.call # "ok"
       \/ response.status # 200
       \/ ~ response.envelope
       \/ json_loads(strip_fence(response.content)).raised
    THEN DefaultIntent
    ELSE json_loads(strip_fence(response.content))

(* Replies of the classification endpoint *)
HttpOk(content) == [call |-> "ok", status |-> 200, envelope |-> TRUE, content |-> content]

WellFormedContents ==
    {ObjectText(i, b) : i \in Intents \cup {"smalltalk"}, b \in BOOLEAN}
    \cup {<<FENCE, JSON_TAG>> \o ObjectText("followup", FALSE) \o <<FENCE>>,
          <<PROSE, FENCE>> \o ObjectText("overview", TRUE) \o <<FENCE>>,
          <<OPEN, IntentField("factual"), CLOSE>>,
          <<OPEN, NeedsHistoryField(FALSE), CLOSE>>}

MalformedContents ==
    {<<>>, <<PROSE>>, <<PROSE>> \o ObjectText("followup", TRUE),
     ObjectText("followup", TRUE) \o <<FENCE>>,
     <<ARRAY_OPEN, ARRAY_CLOSE>>, <<STRING_VALUE>>,
     <<FENCE, JSON_TAG, ARRAY_OPEN, ARRAY_CLOSE, FENCE>>}

FailedResponses ==
    {[call |-> "connect_error", status |-> 0, envelope |-> FALSE, content |-> <<>>],
     [call |-> "timeout", status |-> 0, envelope |-> FALSE, content |-> <<>>],
     [call |-> "ok", status |-> 500, envelope |-> FALSE, content |-> <<>>],
     [call |-> "ok", status |-> 200, envelope |-> FALSE, content |-> <<>>]}

ClassifierResponses ==
    {HttpOk(c) : c \in WellFormedContents \cup MalformedContents} \cup FailedResponses

-----------------------------------------------------------------------------
(* Vector memory store, as queried by tools/memory_tool.retrieve_context.
   Scores are in hundredths; the similarity of each stored point to the query of
   the turn is part of the environment. *)

SCORE_THRESHOLD == 50
QUERY_LIMIT == 5
NoScore == -1

Owners == {"A", "B"}

MemoryPoint(user, text, kind) ==
    [memory |-> text, user_id |-> user, chat_id |-> "c0",
     user_input |-> <<"old question">>, type |-> kind]

PointA1 == MemoryPoint("A", <<"A likes tea">>, "extracted_fact")
PointA2 == MemoryPoint("A", <<"User said:", "hi", "Assistant responded:", "hello">>, "transcript")
PointB1 == MemoryPoint("B", <<"B lives in Oslo">>, "extracted_fact")

FullStore == <<PointA1, PointB1, PointA2>>

Stores == {<<>>, <<PointA1>>, <<PointB1>>, <<PointB1, PointA1>>, FullStore}

ScoreValues == {NoScore, 50, 51, 90}

(* query_points without the owner filter *)
query_points_unfiltered(store, scores, user, limit) ==
    LET matching == 1..Len(store)
        rank(k) == Cardinality({j \in matching :
                       scores[j] > scores[k] \/ (scores[j] = scores[k] /\ j < k)})
        top == {k \in matching : rank(k) < limit}
    IN  [r \in 1..Cardinality(top) |->
            LET k == CHOOSE k \in top : rank(k) = r - 1
            IN  [score |-> scores[k], payload |-> store[k]]]

(* client.query_points: the limit best-scoring points whose user_id matches *)
query_points(store, scores, user, limit) ==
    LET matching == {k \in 1..Len(store) : store[k].user_id = user}
        rank(k) == Cardinality({j \in matching :
                       scores[j] > scores[k] \/ (scores[j] = scores[k] /\ j < k)})
        top == {k \in matching : rank(k) < limit}
    IN  [r \in 1..Cardinality(top) |->
            LET k == CHOOSE k \in top : rank(k) = r - 1
            IN  [score |-> scores[k], payload |-> store[k]]]

FACTS_HEADER == "Here is what you remember about this user:"

RECURSIVE bullets(_)
bullets(hits) ==
    IF hits = <<>> THEN <<>>
    ELSE <<"-">> \o Head(hits).payload.memory \o bullets(Tail(hits))

(* retrieve_context keeping hits at the threshold *)
retrieve_context_inclusive(query, user, store, e) ==
    IF ~ e.client_ok \/ ~ e.embed_ok \/ ~ e.query_ok THEN <<>>
    ELSE LET results == query_points(store, e.scores, user, QUERY_LIMIT)
             memories == SelectSeq(results,
                 LAMBDA hit : hit.score # NoScore /\ hit.score >= SCORE_THRESHOLD)
         IN  IF memories = <<>> THEN <<>> ELSE <<FACTS_HEADER>> \o bullets(memories)

retrieve_context(query, user, store, e) ==
    IF ~ e.client_ok \/ ~ e.embed_ok \/ ~ e.query_ok THEN <<>>
    ELSE LET results == query_points(store, e.scores, user, QUERY_LIMIT)
             memories == SelectSeq(results,
                 LAMBDA hit : hit.score # NoScore /\ hit.score # 0
                              /\ hit.score > SCORE_THRESHOLD)
         IN  IF memories = <<>> THEN <<>> ELSE <<FACTS_HEADER>> \o bullets(memories)

-----------------------------------------------------------------------------
(* Context assembly: database.get_adaptive_context and the recall node *)

(* The tier table with the follow-up window also used for the default *)
select_tiers_wide_default(intent, needs_history, chat, e) ==
    LET has_chat == chat # None
    IN  CASE intent = "overview" ->
               [summary |-> IF has_chat THEN get_summary(chat) ELSE <<>>,
                recent |-> IF has_chat THEN get_recent_messages_text(chat, 2) ELSE <<>>,
                raised |-> has_chat /\ (~ e.summary_ok \/ ~ e.recent_ok)]
          [] intent = "followup" ->
               [summary |-> <<>>,
                recent |-> IF has_chat THEN get_recent_messages_text(chat, 5) ELSE <<>>,
                raised |-> has_chat /\ ~ e.recent_ok]
          [] intent = "factual" ->
               [summary |-> IF needs_history /\ has_chat THEN get_summary(chat) ELSE <<>>,
                recent |-> <<>>,
                raised |-> needs_history /\ has_chat /\ ~ e.summary_ok]
          [] intent = "new_topic" ->
               [summary |-> <<>>, recent |-> <<>>, raised |-> FALSE]
          [] OTHER ->
               [summary |-> IF has_chat THEN get_summary(chat) ELSE <<>>,
                recent |-> IF has_chat THEN get_recent_messages_text(chat, 5) ELSE <<>>,
                raised |-> has_chat /\ (~ e.summary_ok \/ ~ e.recent_ok)]

(* Step 3 of get_adaptive_context: the tiers read for an intent; raised when
   a read that is made fails *)
select_tiers(intent, needs_history, chat, e) ==
    LET has_chat == chat # None
    IN  CASE intent = "overview" ->
               [summary |-> IF has_chat THEN get_summary(chat) ELSE <<>>,
                recent |-> IF has_chat THEN get_recent_messages_text(chat, 2) ELSE <<>>,
                raised |-> has_chat /\ (~ e.summary_ok \/ ~ e.recent_ok)]
          [] intent = "followup" ->
               [summary |-> <<>>,
                recent |-> IF has_chat THEN get_recent_messages_text(chat, 5) ELSE <<>>,
                raised |-> has_chat /\ ~ e.recent_ok]
          [] intent = "factual" ->
               [summary |-> IF needs_history /\ has_chat THEN get_summary(chat) ELSE <<>>,
                recent |-> <<>>,
                raised |-> needs_history /\ has_chat /\ ~ e.summary_ok]
          [] intent = "new_topic" ->
               [summary |-> <<>>, recent |-> <<>>, raised |-> FALSE]
          [] OTHER ->
               [summary |-> IF has_chat THEN get_summary(chat) ELSE <<>>,
                recent |-> IF has_chat THEN get_recent_messages_text(chat, 3) ELSE <<>>,
                raised |-> has_chat /\ (~ e.summary_ok \/ ~ e.recent_ok)]

AdaptiveRaised ==
    [raised |-> TRUE, facts |-> <<>>, summary |-> <<>>, recent |-> <<>>,
     intent |-> "", needs_history |-> FALSE]

get_adaptive_context(user_query, chat, user, store, e) ==
    LET intent_result == classify_query_intent(e.classifier)
    IN  IF intent_result.kind # "object" THEN AdaptiveRaised
        ELSE LET intent == IF "intent" \in intent_result.keys
                           THEN intent_result.intent ELSE "general"
                 needs_history == IF "needs_history" \in intent_result.keys
                                  THEN intent_result.needs_history ELSE TRUE
                 facts == retrieve_context(user_query, user, store, e)
                 tiers == select_tiers(intent, needs_history, chat, e)
             IN  IF tiers.raised THEN AdaptiveRaised
                 ELSE [raised |-> FALSE, facts |-> facts, summary |-> tiers.summary,
                       recent |-> tiers.recent, intent |-> intent,
                       needs_history |-> needs_history]

EmptyContext == [facts |-> <<>>, summary |-> <<>>, recent_history |-> <<>>]

recall_node(ui, chat, user, store, e) ==
    LET adaptive_result == get_adaptive_context(ui, chat, user, store, e)
    IN  IF ~ adaptive_result.raised
        THEN [raised |-> FALSE,
              context |-> [facts |-> adaptive_result.facts,
                           summary |-> adaptive_result.summary,
                           recent_history |-> adaptive_result.recent]]
        ELSE IF chat # None /\ ~ e.summary_retry_ok
        THEN [raised |-> TRUE, context |-> EmptyContext]
        ELSE [raised |-> FALSE,
              context |-> [facts |-> IF ui # <<>>
                                     THEN retrieve_context(ui, user, store, e) ELSE <<>>,
                           summary |-> IF chat # None THEN get_summary(chat) ELSE <<>>,
                           recent_history |-> <<>>]]

(* Behaviour of the services recall calls during one turn *)
BaseEnv ==
    [classifier |-> HttpOk(ObjectText("general", TRUE)),
     client_ok |-> TRUE, embed_ok |-> TRUE, query_ok |-> TRUE,
     summary_ok |-> TRUE, recent_ok |-> TRUE, summary_retry_ok |-> TRUE,
     scores |-> [k \in 1..Len(FullStore) |-> 90]]

SpecEnvs ==
    {[BaseEnv EXCEPT !.classifier = HttpOk(ObjectText(i, TRUE))] :
        i \in {"overview", "followup", "new_topic"}}

SpecStores == {<<>>, <<PointA1>>}

ClassifierEnvs == {[BaseEnv EXCEPT !.classifier = r] : r \in ClassifierResponses}

LookupEnvs ==
    {[classifier |-> HttpOk(ObjectText(i, b)),
      client_ok |-> f[1], embed_ok |-> f[2], query_ok |-> f[3],
      summary_ok |-> f[4], recent_ok |-> f[5], summary_retry_ok |-> f[6],
      scores |-> BaseEnv.scores] :
        i \in Intents, b \in BOOLEAN, f \in [1..6 -> BOOLEAN]}

ScoreEnvs == {[BaseEnv EXCEPT !.scores = s] : s \in [1..Len(FullStore) -> ScoreValues]}

RecallEnvs == ClassifierEnvs \cup LookupEnvs \cup ScoreEnvs

-----------------------------------------------------------------------------
(* The graph's edges *)

(* EdgeTarget with the respond edge wired straight to END *)
EdgeTarget_respond_to_end(node) ==
    CASE node = "recall" -> "reason"
      [] node = "tools" -> "reason"
      [] node = "respond" -> "done"
      [] node = "memorize" -> "done"

EdgeTarget(node) ==
    CASE node = "recall" -> "reason"
      [] node = "tools" -> "reason"
      [] node = "respond" -> "memorize"
      [] node = "memorize" -> "done"

(* should_continue looking at the tool calls before the cap *)
should_continue_calls_first(msgs, tool_count) ==
    IF msgs = <<>> THEN "respond"
    ELSE IF Last(msgs).tool_calls # <<>> THEN "tools"
    ELSE "respond"

(* should_continue never looking at the tool calls *)
should_continue_ignores_calls(msgs, tool_count) ==
    IF msgs = <<>> THEN "respond"
    ELSE IF tool_count >= MAX_TOOL_CALLS THEN "respond"
    ELSE "tools"

(* should_continue with > for >= *)
should_continue_off_by_one(msgs, tool_count) ==
    IF msgs = <<>> THEN "respond"
    ELSE IF tool_count > MAX_TOOL_CALLS THEN "respond"
    ELSE IF Last(msgs).tool_calls # <<>> THEN "tools"
    ELSE "respond"

should_continue(msgs, tool_count) ==
    IF msgs = <<>> THEN "respond"
    ELSE IF tool_count >= MAX_TOOL_CALLS THEN "respond"
    ELSE IF Last(msgs).tool_calls # <<>> THEN "tools"
    ELSE "respond"

(* should_continue prints its warning exactly on its second return *)
should_continue_warns(msgs, tool_count) ==
    msgs # <<>> /\ tool_count >= MAX_TOOL_CALLS

-----------------------------------------------------------------------------
(* reason *)

SYSTEM_PROMPT(memory_facts, conversation_summary) ==
    <<"You are MeGPT", "[LONG-TERM MEMORY]">> \o memory_facts
        \o <<"[CONVERSATION SUMMARY]">> \o conversation_summary
        \o <<"Guidelines", "DO NOT HALLUCINATE DATA">>

system_content(ctx) ==
    SYSTEM_PROMPT(IF ctx.facts # <<>> THEN ctx.facts ELSE <<"No prior facts.">>,
                  IF ctx.summary # <<>> THEN ctx.summary ELSE <<"No summary yet.">>)

context_refresh(ctx) ==
    IF ctx.recent_history # <<>>
    THEN <<"RECENT CONVERSATION HISTORY (from database):">> \o ctx.recent_history
    ELSE <<>>

full_messages(ctx, msgs) ==
    LET current_input == IF msgs # <<>> THEN Last(msgs) ELSE HumanMessage(<<>>)
    IN  <<SystemMessage(system_content(ctx))>>
        \o (IF context_refresh(ctx) # <<>>
            THEN <<SystemMessage(context_refresh(ctx))>> ELSE <<>>)
        \o <<current_input>>

(* What the language model may answer: text or none, and no tool call, one
   or MaxCalls of them *)
AIContents == {<<>>, <<"answer">>}

CallCounts == {0, 1, MaxCalls}

(* The k-th call of the round-th request asks Queries[round][k]; its id is the
   position of the requesting message and k, so ids are unique in a turn *)
Queries ==
    << <<"q1.1", "q1.2", "q1.3", "q1.4">>, <<"q2.1", "q2.2", "q2.3", "q2.4">>,
       <<"q3.1", "q3.2", "q3.3", "q3.4">>, <<"q4.1", "q4.2", "q4.3", "q4.4">> >>

ToolCalls(pos, round, n) ==
    [k \in 1..n |->
        [id |-> <<pos, k>>, name |-> "web_search", query |-> Queries[((round - 1) % Len(Queries)) + 1][k]]]

(* reason_node returning the response in place of the messages *)
reason_node_overwrites(msgs, response) == <<response>>

reason_node(msgs, response) == msgs \o <<response>>

-----------------------------------------------------------------------------
(* tools *)

web_search(query) == <<"SOURCE 1:", query>>

tool_node(msgs) ==
    LET calls == Last(msgs).tool_calls
    IN  [k \in 1..Len(calls) |-> ToolMessage(web_search(calls[k].query), calls[k].id)]

(* tools_wrapper_node counting calls instead of iterations *)
tools_wrapper_node_counts_calls(msgs, count) ==
    [messages |-> msgs \o tool_node(msgs),
     tool_call_count |-> count + Len(tool_node(msgs))]

tools_wrapper_node(msgs, count) ==
    [messages |-> msgs \o tool_node(msgs), tool_call_count |-> count + 1]

-----------------------------------------------------------------------------
(* respond *)

APOLOGY == <<"I couldn't find any information to help with that.">>

SEPARATOR == "---"

RECURSIVE join(_, _)
join(sep, parts) ==
    IF parts = <<>> THEN <<>>
    ELSE IF Len(parts) = 1 THEN parts[1]
    ELSE parts[1] \o <<sep>> \o join(sep, Tail(parts))

(* tool_results keeping the newest result only *)
tool_results_last_only(msgs) ==
    IF \E i \in 1..Len(msgs) : msgs[i].type = "tool"
    THEN LET i == CHOOSE i \in 1..Len(msgs) :
                      /\ msgs[i].type = "tool"
                      /\ \A j \in (i + 1)..Len(msgs) : msgs[j].type # "tool"
         IN  <<msgs[i].content>>
    ELSE <<>>

RECURSIVE tool_results(_)
tool_results(msgs) ==
    IF msgs = <<>> THEN <<>>
    ELSE (IF msgs[1].type = "tool" THEN <<msgs[1].content>> ELSE <<>>)
         \o tool_results(Tail(msgs))

(* clean_history without the test for empty assistant text *)
clean_history_keeps_empty_ai(msgs) ==
    SelectSeq(msgs, LAMBDA m : m.type = "human" \/ m.type = "ai")

RECURSIVE clean_history(_)
clean_history(msgs) ==
    IF msgs = <<>> THEN <<>>
    ELSE (IF msgs[1].type = "human" THEN <<msgs[1]>>
          ELSE IF msgs[1].type = "ai" /\ msgs[1].content # <<>> THEN <<msgs[1]>>
          ELSE <<>>)
         \o clean_history(Tail(msgs))

synthesis_prompt(ui, all_results) ==
    <<"You are MeGPT. Answer the user based on the Search Results.", "User asked:">>
        \o ui \o <<"SEARCH RESULTS:">> \o all_results \o <<"INSTRUCTIONS:">>

synthesis_messages(msgs, ui) ==
    <<SystemMessage(<<"You are a helpful AI assistant.">>)>>
        \o clean_history(msgs)
        \o <<HumanMessage(synthesis_prompt(ui, join(SEPARATOR, tool_results(msgs))))>>

(* respond_node synthesizing whenever tool results exist *)
respond_branch_prefers_synthesis(msgs) ==
    IF msgs # <<>> /\ tool_results(msgs) # <<>> THEN "synthesis"
    ELSE IF msgs # <<>> /\ Last(msgs).type = "ai" /\ Last(msgs).content # <<>> THEN "direct"
    ELSE "apology"

(* respond_node falling back to the apology without looking at tool results *)
respond_branch_skips_synthesis(msgs) ==
    IF msgs # <<>> /\ Last(msgs).type = "ai" /\ Last(msgs).content # <<>> THEN "direct"
    ELSE "apology"

(* Which of its three returns respond_node takes *)
respond_branch(msgs) ==
    IF msgs # <<>> /\ Last(msgs).type = "ai" /\ Last(msgs).content # <<>> THEN "direct"
    ELSE IF msgs # <<>> /\ tool_results(msgs) # <<>> THEN "synthesis"
    ELSE "apology"

SynthOutputs == {<<>>, <<"synthesized answer">>}

-----------------------------------------------------------------------------
(* memorize: save_interaction *)

(* Replies of the extraction call: the call fails, or the model answers a
   text (after strip) *)
ExtractFailed == [raised |-> TRUE, content |-> <<>>]

ExtractReply(content) == [raised |-> FALSE, content |-> content]

ExtractedSentences == {<<"User prefers dark mode">>, <<"User said:", "I prefer dark mode">>}

ExtractOutcomes ==
    {ExtractFailed, ExtractReply(<<>>), ExtractReply(<<"NONE">>), ExtractReply(<<"none">>)}
    \cup {ExtractReply(sentence) : sentence \in ExtractedSentences}

upper(content) == IF content = <<"none">> THEN <<"NONE">> ELSE content

extract_facts(reply) ==
    IF reply.raised THEN <<>>
    ELSE IF reply.content # <<>> /\ upper(reply.content) # <<"NONE">> THEN reply.content
    ELSE <<>>

transcript_text(ui, ai_response) ==
    <<"User said:">> \o ui \o <<"Assistant responded:">> \o ai_response

(* save_interaction writing the point although the embedding failed *)
save_interaction_ignores_embedding(ui, ai_response, user, chat, reply, client_ok, embedded, upsert_ok) ==
    IF ~ client_ok THEN <<>>
    ELSE <<[memory |-> transcript_text(ui, ai_response), user_id |-> user,
            chat_id |-> chat, user_input |-> ui, type |-> "transcript"]>>

save_interaction(ui, ai_response, user, chat, reply, client_ok, embedded, upsert_ok) ==
    LET extracted == extract_facts(reply)
        fact_text == IF extracted # <<>> THEN extracted ELSE transcript_text(ui, ai_response)
        is_extracted == extracted # <<>> /\ extracted[1] # "User said:"
    IN  IF ~ client_ok \/ ~ embedded \/ ~ upsert_ok THEN <<>>
        ELSE <<[memory |-> fact_text, user_id |-> user, chat_id |-> chat,
                user_input |-> ui,
                type |-> IF is_extracted THEN "extracted_fact" ELSE "transcript"]>>

(* Outcomes of the calls the memory write makes; a call that is not reached
   is recorded as not made *)
MemorizeOutcome(reply, client_ok, embedded, upsert_ok) ==
    [reply |-> reply, client_ok |-> client_ok, embedded |-> client_ok /\ embedded,
     upsert_ok |-> client_ok /\ embedded /\ upsert_ok]

MemorizeOutcomes ==
    {MemorizeOutcome(r, TRUE, TRUE, TRUE) : r \in ExtractOutcomes}
    \cup {MemorizeOutcome(r, f[1], f[2], f[3]) :
              r \in {ExtractFailed, ExtractReply(<<"User prefers dark mode">>)},
              f \in {<<FALSE, FALSE, FALSE>>, <<TRUE, FALSE, FALSE>>, <<TRUE, TRUE, FALSE>>}}

NotAttempted ==
    [attempted |-> FALSE, client_ok |-> FALSE, embedded |-> FALSE, upsert_ok |-> FALSE]

(* memorize_node without its try around save_interaction, and save_interaction
   without its own *)
memorize_node_unguarded(ui, ai_response, user, chat, store, o) ==
    IF ui # <<>> /\ ai_response # <<>>
    THEN [memory |-> store \o save_interaction(ui, ai_response, user, chat, o.reply,
                                               o.client_ok, o.embedded, o.upsert_ok),
          raised |-> ~ o.upsert_ok,
          log |-> [attempted |-> TRUE, client_ok |-> o.client_ok,
                   embedded |-> o.embedded, upsert_ok |-> o.upsert_ok]]
    ELSE [memory |-> store, raised |-> FALSE, log |-> NotAttempted]

memorize_node(ui, ai_response, user, chat, store, o) ==
    IF ui # <<>> /\ ai_response # <<>>
    THEN [memory |-> store \o save_interaction(ui, ai_response, user, chat, o.reply,
                                               o.client_ok, o.embedded, o.upsert_ok),
          raised |-> FALSE,
          log |-> [attempted |-> TRUE, client_ok |-> o.client_ok,
                   embedded |-> o.embedded, upsert_ok |-> o.upsert_ok]]
    ELSE [memory |-> store, raised |-> FALSE, log |-> NotAttempted]

-----------------------------------------------------------------------------
(* The turn *)

-----------------------------------------------------------------------------
(* Background summarizer: tools/summary_tool.summarize_chat_background *)

WS == " "

RECURSIVE lstrip(_)
lstrip(text) == IF text # <<>> /\ Head(text) = WS THEN lstrip(Tail(text)) ELSE text

RECURSIVE rstrip(_)
rstrip(text) == IF text # <<>> /\ Last(text) = WS THEN rstrip(Front(text)) ELSE text

strip(text) == rstrip(lstrip(text))

SummarizerOutcome(summary_ok, recent_ok, recent_history, llm, content, write_ok) ==
    [summary_ok |-> summary_ok, recent_ok |-> recent_ok,
     recent_history |-> recent_history, llm |-> llm, content |-> content,
     write_ok |-> write_ok]

NoSummarizerRun == SummarizerOutcome(FALSE, FALSE, <<>>, "not called", <<>>, FALSE)

SummarizerSuccess(content) ==
    SummarizerOutcome(TRUE, TRUE, StoredTranscript, "ok", content, TRUE)

SummarizerOutcomes ==
    {SummarizerSuccess(c) : c \in {<<"new summary">>, <<WS, "new summary", WS>>, <<>>}}
    \cup {SummarizerOutcome(FALSE, TRUE, StoredTranscript, "ok", <<"new summary">>, TRUE),
          SummarizerOutcome(TRUE, FALSE, StoredTranscript, "ok", <<"new summary">>, TRUE),
          SummarizerOutcome(TRUE, TRUE, <<>>, "ok", <<"new summary">>, TRUE),
          SummarizerOutcome(TRUE, TRUE, StoredTranscript, "failed", <<>>, TRUE),
          SummarizerOutcome(TRUE, TRUE, StoredTranscript, "bad_envelope", <<>>, TRUE),
          SummarizerOutcome(TRUE, TRUE, StoredTranscript, "ok", <<"new summary">>, FALSE)}

(* The summarizer adding the new text to the old summary *)
summarize_chat_background_appends(current_summary, o) ==
    IF ~ o.summary_ok \/ ~ o.recent_ok THEN current_summary
    ELSE IF o.recent_history = <<>> THEN current_summary
    ELSE IF o.llm # "ok" THEN current_summary
    ELSE IF ~ o.write_ok THEN current_summary
    ELSE current_summary \o strip(o.content)

(* The summary column after one run that found current_summary *)
summarize_chat_background(current_summary, o) ==
    IF ~ o.summary_ok \/ ~ o.recent_ok THEN current_summary
    ELSE IF o.recent_history = <<>> THEN current_summary
    ELSE IF o.llm # "ok" THEN current_summary
    ELSE IF ~ o.write_ok THEN current_summary
    ELSE strip(o.content)

-----------------------------------------------------------------------------
(* End of server.stream_response: the background summary step *)

MsgCounts == {0, 1, 4, 5, 6, 10}

(* The scheduling test without the test for a positive count *)
background_summary_any_multiple(chat, count_ok, msg_count, tasks) ==
    IF chat # None /\ count_ok /\ msg_count % 5 = 0 THEN Append(tasks, chat) ELSE tasks

background_summary(chat, count_ok, msg_count, tasks) ==
    IF chat # None /\ count_ok /\ msg_count > 0 /\ msg_count % 5 = 0
    THEN Append(tasks, chat)
    ELSE tasks

-----------------------------------------------------------------------------
(* Durability manager: tools/backup_tool.  Export and import of the vector
   collection *)

MaxClock == 3
RetentionCount == 2
VectorDim == 2

SCROLL_LIMIT == 100
BATCH_SIZE == 100
DEFAULT_DIM == 768
NoOffset == 0

(* A stored point: uuid string id, vector, payload *)
Point(i) == [id |-> <<"uuid", i>>, vector |-> [k \in 1..VectorDim |-> i], payload |-> <<"fact", i>>]

Collection(n) == [dim |-> VectorDim, points |-> [i \in 1..n |-> Point(i)]]

(* client.scroll: one page from offset on, and the offset of the next page *)
scroll(points, limit, offset) ==
    LET start == IF offset = NoOffset THEN 1 ELSE offset
        stop == Min(start + limit - 1, Len(points))
    IN  [results |-> SubSeq(points, start, stop),
         offset |-> IF stop < Len(points) THEN stop + 1 ELSE NoOffset]

(* str(point.id): a uuid id is a string already, an integer id becomes its
   decimal text *)
str_id(id) == IF id[1] = "int" THEN <<"str", id[2]>> ELSE id

exported(results) ==
    [k \in 1..Len(results) |->
        [id |-> str_id(results[k].id), vector |-> results[k].vector,
         payload |-> results[k].payload]]

RECURSIVE export_from(_, _, _)
export_from(points, offset, all_points) ==
    LET page == scroll(points, SCROLL_LIMIT, offset)
        all_now == all_points \o exported(page.results)
    IN  IF page.offset = NoOffset THEN all_now
        ELSE export_from(points, page.offset, all_now)

(* The list _export_qdrant_vectors writes to the snapshot file *)
export_qdrant_vectors(coll) == export_from(coll.points, NoOffset, <<>>)

(* client.upsert of one batch: a point replaces the stored point of its id
   or is added after the stored ones; of two points of one id in the batch
   the later one stays *)
upsert(points, batch) ==
    LET stored == {points[k].id : k \in 1..Len(points)}
        last(id) == batch[CHOOSE j \in 1..Len(batch) :
                              /\ batch[j].id = id
                              /\ \A i \in (j + 1)..Len(batch) : batch[i].id # id]
        in_batch(id) == \E j \in 1..Len(batch) : batch[j].id = id
        is_new(j) == /\ batch[j].id \notin stored
                     /\ \A i \in 1..(j - 1) : batch[i].id # batch[j].id
        added == SelectSeq([j \in 1..Len(batch) |-> j], is_new)
    IN  [k \in 1..Len(points) |->
            IF in_batch(points[k].id) THEN last(points[k].id) ELSE points[k]]
        \o [i \in 1..Len(added) |-> last(batch[added[i]].id)]

RECURSIVE upsert_batches(_, _, _)
upsert_batches(points, points_data, i) ==
    IF i > Len(points_data) THEN points
    ELSE upsert_batches(
             upsert(points, SubSeq(points_data, i, Min(i + BATCH_SIZE - 1, Len(points_data)))),
             points_data, i + BATCH_SIZE)

(* _import_qdrant_vectors on the list points_data: the collection afterwards
   and the value returned.  An empty list returns before anything is dropped;
   a failure is either before delete_collection took effect or after it. *)
ImportOutcomes == {"ok", "failed_before_drop", "failed_after_drop"}

import_qdrant_vectors(points_data, coll, outcome) ==
    IF outcome = "failed_before_drop" THEN [ok |-> FALSE, collection |-> coll]
    ELSE IF points_data = <<>> THEN [ok |-> TRUE, collection |-> coll]
    ELSE IF outcome = "failed_after_drop"
    THEN [ok |-> FALSE, collection |-> [dim |-> coll.dim, points |-> <<>>]]
    ELSE [ok |-> TRUE,
          collection |->
              [dim |-> IF Len(points_data[1].vector) > 0
                       THEN Len(points_data[1].vector) ELSE DEFAULT_DIM,
               points |-> upsert_batches(<<>>, points_data, 1)]]

-----------------------------------------------------------------------------
(* Durability manager: the backup directory, create_backup, restore_backup,
   rollback_latest *)

(* backup_id is the wall clock at one-second resolution plus the mode *)
BackupIds == 1..MaxClock
UnknownId == 0

(* Sizes of the collection around the page of a scroll and the batch of an
   upsert *)
PointCounts ==
    {0, 1, SCROLL_LIMIT - 1, SCROLL_LIMIT, SCROLL_LIMIT + 1, 2 * SCROLL_LIMIT, 2 * SCROLL_LIMIT + 1}

(* Contents of the two stores: turns add messages and memory records *)
StoreValues == {<<"db0", Collection(0)>>, <<"db1", Collection(1)>>}

NoName == <<0, "none">>
db_backup_name(id) == <<id, "megpt.db">>
vectors_backup_name(id) == <<id, "vectors.json">>
FileNames == {db_backup_name(id) : id \in BackupIds} \cup {vectors_backup_name(id) : id \in BackupIds}

NoFile == [exists |-> FALSE, db |-> "", points |-> <<>>]
DbFile(content) == [exists |-> TRUE, db |-> content, points |-> <<>>]
VectorsFile(points_data) == [exists |-> TRUE, db |-> "", points |-> points_data]

BackupInfo(id, vectors_exported) ==
    [id |-> id, db_file |-> db_backup_name(id),
     vectors_file |-> IF vectors_exported THEN vectors_backup_name(id) ELSE NoName]

StoreState(d, c, f, m) == [db |-> d, collection |-> c, files |-> f, manifest |-> m]

(* Where a create_backup call raises, if anywhere *)
CreateOutcomes == {"ok", "copy_fails", "export_fails", "unlink_db_fails", "unlink_vectors_fails", "save_fails"}

(* The retention loop over the entries past the cap: the files afterwards and
   whether an exception left the loop.  Path / None raises before the entry's
   first unlink. *)
RECURSIVE remove_old(_, _, _)
remove_old(f, olds, outcome) ==
    IF olds = <<>> THEN [files |-> f, raised |-> FALSE]
    ELSE LET old == Head(olds)
         IN  IF old.vectors_file = NoName THEN [files |-> f, raised |-> TRUE]
             ELSE IF f[old.db_file].exists /\ outcome = "unlink_db_fails"
             THEN [files |-> f, raised |-> TRUE]
             ELSE LET f1 == [f EXCEPT ![old.db_file] = NoFile]
                  IN  IF f1[old.vectors_file].exists /\ outcome = "unlink_vectors_fails"
                      THEN [files |-> f1, raised |-> TRUE]
                      ELSE remove_old([f1 EXCEPT ![old.vectors_file] = NoFile],
                                      Tail(olds), outcome)

(* create_backup at wall-clock second now: the stores afterwards and whether
   a BackupInfo was returned *)
create_backup(st, now, outcome) ==
    IF outcome = "copy_fails" THEN [ok |-> FALSE, st |-> st]
    ELSE LET f1 == [st.files EXCEPT ![db_backup_name(now)] = DbFile(st.db)]
             vectors_exported == outcome # "export_fails"
             f2 == IF vectors_exported
                   THEN [f1 EXCEPT ![vectors_backup_name(now)] =
                                       VectorsFile(export_qdrant_vectors(st.collection))]
                   ELSE f1
             inserted == <<BackupInfo(now, vectors_exported)>> \o st.manifest
             over == Len(inserted) > RetentionCount
             removal == IF over
                        THEN remove_old(f2, SubSeq(inserted, RetentionCount + 1, Len(inserted)), outcome)
                        ELSE [files |-> f2, raised |-> FALSE]
             kept == IF over THEN SubSeq(inserted, 1, RetentionCount) ELSE inserted
         IN  IF removal.raised \/ outcome = "save_fails"
             THEN [ok |-> FALSE, st |-> [st EXCEPT !.files = removal.files]]
             ELSE [ok |-> TRUE,
                   st |-> [st EXCEPT !.files = removal.files, !.manifest = kept]]

auto_backup_before_restore == TRUE

(* The first manifest entry of the given id, 0 when there is none *)
find_backup(m, backup_id) ==
    LET at == {k \in 1..Len(m) : m[k].id = backup_id}
    IN  IF at = {} THEN 0 ELSE CHOOSE k \in at : \A j \in at : k <= j

(* What can go wrong in one restore_backup call: at most one step fails *)
NoFault == [create |-> "ok", copy_ok |-> TRUE, import |-> "ok"]

RestoreOutcomes ==
    {[NoFault EXCEPT !.create = c] : c \in CreateOutcomes}
        \cup {[NoFault EXCEPT !.copy_ok = FALSE]}
        \cup {[NoFault EXCEPT !.import = i] : i \in ImportOutcomes}

(* What restore_backup returns when it stops before touching a snapshot *)
Stopped(st, made) ==
    [ok |-> FALSE, st |-> st, safety |-> made, missing |-> FALSE, import |-> "none"]

(* restore_backup(backup_id) at wall-clock second now: the stores afterwards,
   the value returned, what the safety backup returned, whether a snapshot
   file of the entry was missing, and what the vector import returned *)
restore_backup(st, backup_id, now, o) ==
    LET at == find_backup(st.manifest, backup_id)
    IN  IF at = 0 THEN Stopped(st, "none")
        ELSE
        LET backup == st.manifest[at]
            safety == IF auto_backup_before_restore
                      THEN create_backup(st, now, o.create)
                      ELSE [ok |-> FALSE, st |-> st]
            made == IF ~ auto_backup_before_restore THEN "none"
                    ELSE IF safety.ok THEN "created" ELSE "failed"
            st1 == safety.st
            db_file == st1.files[backup.db_file]
        IN  IF db_file.exists /\ ~ o.copy_ok THEN Stopped(st1, made)
            ELSE
            LET st2 == IF db_file.exists THEN [st1 EXCEPT !.db = db_file.db] ELSE st1
                has_vectors == backup.vectors_file # NoName
                vectors_found == has_vectors /\ st2.files[backup.vectors_file].exists
                imported == IF vectors_found
                            THEN import_qdrant_vectors(st2.files[backup.vectors_file].points,
                                                       st2.collection, o.import)
                            ELSE [ok |-> TRUE, collection |-> st2.collection]
            IN  [ok |-> TRUE,
                 st |-> [st2 EXCEPT !.collection = imported.collection],
                 safety |-> made,
                 missing |-> ~ db_file.exists \/ (has_vectors /\ ~ vectors_found),
                 import |-> IF ~ vectors_found THEN "none"
                            ELSE IF imported.ok THEN "ok" ELSE "failed"]

rollback_latest_oldest(st, now, o) ==
    IF st.manifest = <<>> THEN Stopped(st, "none")
    ELSE restore_backup(st, st.manifest[Len(st.manifest)].id, now, o)

(* rollback_latest: restore the newest manifest entry *)
rollback_latest(st, now, o) ==
    IF st.manifest = <<>> THEN Stopped(st, "none")
    ELSE restore_backup(st, st.manifest[1].id, now, o)

NoFiles == [name \in FileNames |-> NoFile]

InitialStores == StoreState("db0", Collection(0), NoFiles, <<>>)

NoBackupLog == [op |-> "none", id |-> UnknownId, ok |-> FALSE, safety |-> "none",
                missing |-> FALSE, import |-> "none"]

NoCount == -1

NoStreamLog == [count |-> NoCount, count_ok |-> FALSE, summarizer |-> NoSummarizerRun]

-----------------------------------------------------------------------------
(* Session delete: server.delete_chat_endpoint and
   memory_tool.delete_memories_for_chat *)

DELETE_SCROLL_LIMIT == 100

NoChat == "no chat"
NoDeleteLog == [chat |-> NoChat, uid |-> "", deleted_memories |-> 0]

(* A record the Memory Writer stored for a session *)
SessionPoint(user, chat) ==
    [memory |-> <<"fact of", chat>>, user_id |-> user, chat_id |-> chat,
     user_input |-> <<"question">>, type |-> "extracted_fact"]

Repeat(n, point) == [k \in 1..n |-> point]

DeleteOutcomes == {"ok", "no_client", "scroll_fails", "delete_fails"}

(* One scroll page of the points of the owner and the session *)
scroll_filter(store, user, chat, limit) ==
    LET matching == {k \in 1..Len(store) :
                        store[k].user_id = user /\ store[k].chat_id = chat}
    IN  {k \in matching : Cardinality({j \in matching : j < k}) < limit}

(* client.delete of the points at the given places *)
delete_points(store, results) ==
    LET kept(k) == k \notin results
        places == SelectSeq([k \in 1..Len(store) |-> k], kept)
    IN  [i \in 1..Len(places) |-> store[places[i]]]

Deleted(store, results) ==
    [store |-> delete_points(store, results), deleted |-> Cardinality(results)]

(* delete_memories_for_chat(chat_id, user_id): the store afterwards and the
   number returned *)
delete_memories_for_chat(store, chat, user, outcome) ==
    IF outcome # "ok" THEN [store |-> store, deleted |-> 0]
    ELSE Deleted(store, scroll_filter(store, user, chat, DELETE_SCROLL_LIMIT))

(* No graph run besides the turn itself *)
NoTurns == <<>>

(* No retried client call in progress *)
NoResult == [kind |-> "none", value |-> <<>>]

(* The transcript database as the numbers of its rows *)
Transcript(chats, msgs) == [chats |-> chats, messages |-> msgs]

NoStats == [chat_count |-> 0, message_count |-> 0, memory_count |-> 0]

(* No create_backup call in progress, one session without messages stored *)
NoBackupRun ==
    [step |-> "idle", transcript |-> Transcript(1, 0), db_copy |-> Transcript(0, 0),
     vectors_exported |-> FALSE, points_data |-> <<>>, stats |-> NoStats]

NoRetry ==
    [op |-> "none", status |-> "idle", attempt |-> 0, outcomes |-> <<>>,
     waits |-> <<>>, result |-> NoResult]

InitOver(envs, stores, owners, histories) ==
    /\ user_input \in UserInputs
    /\ chat_id \in ChatIds
    /\ user_id \in owners
    /\ env \in envs
    /\ memory \in stores
    /\ \E history \in histories : messages = history \o <<HumanMessage(user_input)>>
    /\ context = EmptyContext
    /\ recall_log = [intent_result |-> DefaultIntent, adaptive_result |-> AdaptiveRaised]
    /\ memorize_log = NotAttempted
    /\ background_tasks = <<>>
    /\ stored_summary = StoredSummary
    /\ stream_log = NoStreamLog
    /\ db = InitialStores.db
    /\ collection = InitialStores.collection
    /\ files = InitialStores.files
    /\ manifest = InitialStores.manifest
    /\ clock = 1
    /\ backup_log = NoBackupLog
    /\ delete_log = NoDeleteLog
    /\ turns = NoTurns
    /\ retry = NoRetry
    /\ backup_run = NoBackupRun
    /\ final_response = <<>>
    /\ tool_call_count = 0
    /\ pc = "recall"
    /\ trace = <<>>
    /\ llm_log = <<>>
    /\ capped_events = 0
    /\ refused = FALSE
    /\ executed = <<>>

Init == InitOver(SpecEnvs, SpecStores, {"A"}, Histories)

(* An exception leaving recall_node ends the turn: stream_response catches it
   and reports an error *)
Recall ==
    /\ pc = "recall"
    /\ LET result == recall_node(user_input, chat_id, user_id, memory, env)
       IN  /\ context' = result.context
           /\ pc' = IF result.raised THEN "aborted" ELSE EdgeTarget("recall")
    /\ recall_log' = [intent_result |-> classify_query_intent(env.classifier),
                      adaptive_result |->
                          get_adaptive_context(user_input, chat_id, user_id, memory, env)]
    /\ trace' = Append(trace, "recall")
    /\ UNCHANGED outside_turn
    /\ UNCHANGED <<messages, user_input, chat_id, user_id, env, final_response,
                   tool_call_count, llm_log, capped_events, refused, executed, memory,
                   memorize_log>>

Reason ==
    /\ pc = "reason"
    /\ \E content \in AIContents, n \in CallCounts :
          LET response == AIMessage(content,
                              ToolCalls(Len(messages) + 1, tool_call_count + 1, n))
              next_messages == reason_node(messages, response)
              route == should_continue(next_messages, tool_call_count)
          IN  /\ messages' = next_messages
              /\ llm_log' = Append(llm_log,
                     [kind |-> "reason", prompt |-> full_messages(context, messages),
                      output |-> content])
              /\ pc' = route
              /\ capped_events' =
                     IF should_continue_warns(next_messages, tool_call_count)
                     THEN capped_events + 1 ELSE capped_events
              /\ refused' = (refused \/ (route = "respond" /\ n > 0))
    /\ trace' = Append(trace, "reason")
    /\ UNCHANGED outside_turn
    /\ UNCHANGED <<user_input, chat_id, user_id, env, recall_log, memorize_log, context, final_response, tool_call_count,
                   executed, memory>>

Tools ==
    /\ pc = "tools"
    /\ LET out == tools_wrapper_node(messages, tool_call_count)
       IN  /\ messages' = out.messages
           /\ tool_call_count' = out.tool_call_count
    /\ executed' = executed \o
           [k \in 1..Len(tool_node(messages)) |-> tool_node(messages)[k].tool_call_id]
    /\ pc' = EdgeTarget("tools")
    /\ trace' = Append(trace, "tools")
    /\ UNCHANGED outside_turn
    /\ UNCHANGED <<user_input, chat_id, user_id, env, recall_log, memorize_log, context, final_response, llm_log,
                   capped_events, refused, memory>>

RespondDirect ==
    /\ pc = "respond"
    /\ respond_branch(messages) = "direct"
    /\ final_response' = Last(messages).content
    /\ pc' = EdgeTarget("respond")
    /\ trace' = Append(trace, "respond")
    /\ UNCHANGED outside_turn
    /\ UNCHANGED <<messages, user_input, chat_id, user_id, env, recall_log, memorize_log, context, tool_call_count, llm_log,
                   capped_events, refused, executed, memory>>

RespondSynthesis ==
    /\ pc = "respond"
    /\ respond_branch(messages) = "synthesis"
    /\ \E output \in SynthOutputs :
          /\ llm_log' = Append(llm_log,
                 [kind |-> "synthesis",
                  prompt |-> synthesis_messages(messages, user_input),
                  output |-> output])
          /\ final_response' = output
    /\ pc' = EdgeTarget("respond")
    /\ trace' = Append(trace, "respond")
    /\ UNCHANGED outside_turn
    /\ UNCHANGED <<messages, user_input, chat_id, user_id, env, recall_log, memorize_log, context, tool_call_count,
                   capped_events, refused, executed, memory>>

RespondApology ==
    /\ pc = "respond"
    /\ respond_branch(messages) = "apology"
    /\ final_response' = APOLOGY
    /\ pc' = EdgeTarget("respond")
    /\ trace' = Append(trace, "respond")
    /\ UNCHANGED outside_turn
    /\ UNCHANGED <<messages, user_input, chat_id, user_id, env, recall_log, memorize_log, context, tool_call_count, llm_log,
                   capped_events, refused, executed, memory>>

Respond == RespondDirect \/ RespondSynthesis \/ RespondApology

Memorize ==
    /\ pc = "memorize"
    /\ \E o \in MemorizeOutcomes :
          LET result == memorize_node(user_input, final_response, user_id, chat_id,
                                      memory, o)
          IN  /\ memory' = result.memory
              /\ memorize_log' = result.log
              /\ pc' = IF result.raised THEN "aborted" ELSE EdgeTarget("memorize")
    /\ trace' = Append(trace, "memorize")
    /\ UNCHANGED outside_turn
    /\ UNCHANGED <<messages, user_input, chat_id, user_id, env, recall_log, context,
                   final_response, tool_call_count, llm_log, capped_events, refused,
                   executed>>

Next == Recall \/ Reason \/ Tools \/ Respond \/ Memorize

Spec == Init /\ [][Next]_vars

(* The graph executor runs the next node whenever one is due *)
FairSpec == Spec /\ WF_vars(Next)

(* Recall alone, over every modelled reply of the classifier, every outcome
   of the lookups, both owners and every modelled store *)
RecallInit == InitOver(RecallEnvs, Stores, Owners, {<<>>})

RecallSpec == RecallInit /\ [][Recall]_vars

(* The language-model call of reason_node raises: llm_with_tools.invoke is
   not inside a try, so the exception leaves the graph *)
ReasonFails ==
    /\ pc = "reason"
    /\ pc' = "aborted"
    /\ trace' = Append(trace, "reason")
    /\ UNCHANGED outside_turn
    /\ UNCHANGED <<messages, user_input, chat_id, user_id, env, recall_log, memorize_log, context,
                   final_response, tool_call_count, llm_log, capped_events, refused,
                   executed, memory>>

(* The synthesis call of respond_node raises: llm.invoke is not inside a try *)
SynthesisFails ==
    /\ pc = "respond"
    /\ respond_branch(messages) = "synthesis"
    /\ pc' = "aborted"
    /\ trace' = Append(trace, "respond")
    /\ UNCHANGED outside_turn
    /\ UNCHANGED <<messages, user_input, chat_id, user_id, env, recall_log, memorize_log, context,
                   final_response, tool_call_count, llm_log, capped_events, refused,
                   executed, memory>>

FaultInit == InitOver(SpecEnvs, {<<>>}, {"A"}, {<<>>})

FaultNext == Next \/ ReasonFails \/ SynthesisFails

FaultSpec == FaultInit /\ [][FaultNext]_vars

turn_vars ==
    <<messages, user_input, chat_id, user_id, env, recall_log, memorize_log, context,
      final_response, tool_call_count, trace, llm_log, capped_events, refused,
      executed, memory>>

(* After the graph run of the turn ended, stream_response reads the message
   count of the session and may add the summarizer as a background task *)
BackgroundSummary ==
    /\ pc = "done"
    /\ \E msg_count \in MsgCounts, count_ok \in BOOLEAN :
          /\ background_tasks' =
                background_summary(chat_id, count_ok, msg_count, background_tasks)
          /\ stream_log' = [stream_log EXCEPT
                               !.count = IF chat_id # None THEN msg_count ELSE NoCount,
                               !.count_ok = chat_id # None /\ count_ok]
    /\ pc' = "closed"
    /\ UNCHANGED <<turn_vars, stored_summary, backup_vars, service_vars>>

(* An exception of the graph run is reported as an error event; the
   background summary step is skipped *)
StreamError ==
    /\ pc = "aborted"
    /\ pc' = "error_sent"
    /\ UNCHANGED <<turn_vars, outside_turn>>

(* The response is complete; the server runs the next scheduled task *)
Summarize ==
    /\ pc = "closed"
    /\ background_tasks # <<>>
    /\ \E o \in SummarizerOutcomes :
          /\ stored_summary' = summarize_chat_background(stored_summary, o)
          /\ stream_log' = [stream_log EXCEPT !.summarizer = o]
    /\ background_tasks' = Tail(background_tasks)
    /\ UNCHANGED <<turn_vars, pc, backup_vars, service_vars>>

StreamInit == InitOver({BaseEnv}, {<<>>}, {"A"}, {<<>>})

StreamNext == FaultNext \/ BackgroundSummary \/ StreamError \/ Summarize

StreamSpec == StreamInit /\ [][StreamNext]_vars

-----------------------------------------------------------------------------
(* The durability manager, driven by the admin endpoints while turns write
   to the stores *)

CurrentStores == StoreState(db, collection, files, manifest)

ManifestIds(m) == {m[k].id : k \in 1..Len(m)}

not_backup_vars == <<turn_vars, pc, stream_vars, service_vars>>

(* The wall clock reaches the next second *)
Tick ==
    /\ clock < MaxClock
    /\ clock' = clock + 1
    /\ backup_log' = NoBackupLog
    /\ UNCHANGED <<not_backup_vars, db, collection, files, manifest>>

(* Turns persist messages and memory records between two admin calls *)
WriteStores ==
    /\ \E written \in StoreValues :
           /\ written # <<db, collection>>
           /\ db' = written[1]
           /\ collection' = written[2]
    /\ backup_log' = NoBackupLog
    /\ UNCHANGED <<not_backup_vars, files, manifest, clock>>

(* What a call leaves behind *)
Returned(op, id, r) ==
    [op |-> op, id |-> id, ok |-> r.ok, safety |-> r.safety,
     missing |-> r.missing, import |-> r.import]

Created(r) ==
    [ok |-> r.ok, st |-> r.st, safety |-> "none", missing |-> FALSE, import |-> "none"]

(* The stores and the log after a call that returned r *)
AfterCall(op, id, r) ==
    /\ db' = r.st.db
    /\ collection' = r.st.collection
    /\ files' = r.st.files
    /\ manifest' = r.st.manifest
    /\ backup_log' = Returned(op, id, r)
    /\ UNCHANGED <<not_backup_vars, clock>>

(* POST /api/admin/backup *)
CreateBackup ==
    \E outcome \in CreateOutcomes :
        AfterCall("create", clock, Created(create_backup(CurrentStores, clock, outcome)))

(* POST /api/admin/restore/{backup_id}: an id of the manifest or any other *)
RestoreBackup ==
    \E backup_id \in ManifestIds(manifest) \cup {UnknownId}, o \in RestoreOutcomes :
        AfterCall("restore", backup_id, restore_backup(CurrentStores, backup_id, clock, o))

(* POST /api/admin/rollback *)
RollbackLatest ==
    \E o \in RestoreOutcomes :
        AfterCall("rollback", IF manifest = <<>> THEN UnknownId ELSE manifest[1].id,
                  rollback_latest(CurrentStores, clock, o))

(* Memory records are added to the collection or removed from it *)
Populate ==
    /\ \E n \in PointCounts :
           /\ collection # Collection(n)
           /\ collection' = Collection(n)
    /\ backup_log' = NoBackupLog
    /\ UNCHANGED <<not_backup_vars, db, files, manifest, clock>>

SnapshotName == vectors_backup_name(1)

(* _export_qdrant_vectors(output_path) *)
ExportVectors ==
    /\ \E export_ok \in BOOLEAN :
           /\ files' = IF export_ok
                        THEN [files EXCEPT ![SnapshotName] =
                                               VectorsFile(export_qdrant_vectors(collection))]
                        ELSE files
           /\ backup_log' = [NoBackupLog EXCEPT !.op = "export", !.ok = export_ok]
    /\ UNCHANGED <<not_backup_vars, db, collection, manifest, clock>>

(* _import_qdrant_vectors(input_path) of a snapshot written before *)
ImportVectors ==
    /\ files[SnapshotName].exists
    /\ \E outcome \in ImportOutcomes :
           LET r == import_qdrant_vectors(files[SnapshotName].points, collection, outcome)
           IN  /\ collection' = r.collection
               /\ backup_log' = [NoBackupLog EXCEPT !.op = "import", !.ok = r.ok]
    /\ UNCHANGED <<not_backup_vars, db, files, manifest, clock>>

RoundTripNext == Populate \/ ExportVectors \/ ImportVectors

BackupInit ==
    /\ InitOver({BaseEnv}, {<<>>}, {"A"}, {<<>>})
    /\ user_input = <<"question">>
    /\ chat_id = "c1"

RoundTripSpec == BackupInit /\ [][RoundTripNext]_vars

BackupNext == Tick \/ WriteStores \/ CreateBackup \/ RestoreBackup \/ RollbackLatest

BackupSpec == BackupInit /\ [][BackupNext]_vars

-----------------------------------------------------------------------------
(* Session delete over stores of every size around a scroll page *)

SessionCounts == {0, 1, DELETE_SCROLL_LIMIT, DELETE_SCROLL_LIMIT + 1}

(* n records of session c1 owned by A, others of c1 owned by B, others of
   another session of A *)
SessionStore(n, of_b, elsewhere) ==
    Repeat(elsewhere, SessionPoint("A", "c2")) \o Repeat(n, SessionPoint("A", "c1"))
        \o Repeat(of_b, SessionPoint("B", "c1"))

SessionStores ==
    {SessionStore(n, of_b, elsewhere) : n \in SessionCounts, of_b \in 0..1, elsewhere \in 0..1}

not_delete_vars ==
    <<messages, user_input, chat_id, user_id, env, recall_log, memorize_log, context,
      final_response, tool_call_count, trace, llm_log, capped_events, refused,
      executed, pc, stream_vars, backup_vars, turns, retry, backup_run>>

AfterDelete(chat, uid, r) ==
    /\ memory' = r.store
    /\ delete_log' = [chat |-> chat, uid |-> uid, deleted_memories |-> r.deleted]
    /\ UNCHANGED not_delete_vars

(* DELETE /api/chats/{chat_id}?user_id= *)
DeleteChat ==
    \E chat \in {"c1", "c2"}, uid \in Owners, outcome \in DeleteOutcomes :
        AfterDelete(chat, uid, delete_memories_for_chat(memory, chat, uid, outcome))

DeleteInit == InitOver({BaseEnv}, SessionStores, {"A"}, {<<>>})

DeleteSpec == DeleteInit /\ [][DeleteChat]_vars

-----------------------------------------------------------------------------
(* Concurrent turns: every request of server.stream_response starts its own
   graph run; the runs share the compiled graph and the vector store *)

(* The input dict handed to the graph by one request *)
AgentState(ui, chat) ==
    [messages |-> <<HumanMessage(ui)>>, user_input |-> ui, chat_id |-> chat,
     context |-> EmptyContext, final_response |-> <<>>, tool_call_count |-> 0]

Requests ==
    <<AgentState(<<"question">>, "c1"), AgentState(<<"other", "question">>, "c2"),
      AgentState(<<"third", "question">>, "c3")>>

(* What the services answered to one node: the context bundle to recall, the
   model's text and number of tool calls to reason, the text to synthesis *)
NoResponse == [context |-> EmptyContext, content |-> <<>>, calls |-> 0]

ReasonResponses ==
    {[NoResponse EXCEPT !.content = <<"answer">>], NoResponse,
     [NoResponse EXCEPT !.calls = 1]}

ServiceResponses(node, state, store) ==
    CASE node = "recall" ->
            {[NoResponse EXCEPT !.context =
                recall_node(state.user_input, state.chat_id, "A", store, BaseEnv).context]}
      [] node = "reason" -> ReasonResponses
      [] node = "respond" /\ respond_branch(state.messages) = "synthesis" ->
            {[NoResponse EXCEPT !.content = output] : output \in SynthOutputs}
      [] OTHER -> {NoResponse}

(* One node applied to the state dict it was called with: the dict it returns *)
run_node(node, state, response) ==
    CASE node = "recall" -> [state EXCEPT !.context = response.context]
      [] node = "reason" ->
            [state EXCEPT !.messages =
                reason_node(state.messages,
                    AIMessage(response.content,
                        ToolCalls(Len(state.messages) + 1, state.tool_call_count + 1,
                                  response.calls)))]
      [] node = "tools" ->
            [state EXCEPT
                !.messages = tools_wrapper_node(state.messages, state.tool_call_count).messages,
                !.tool_call_count =
                    tools_wrapper_node(state.messages, state.tool_call_count).tool_call_count]
      [] node = "respond" ->
            [state EXCEPT !.final_response =
                CASE respond_branch(state.messages) = "direct" -> Last(state.messages).content
                  [] respond_branch(state.messages) = "synthesis" -> response.content
                  [] OTHER -> APOLOGY]
      [] node = "memorize" -> state

next_node(node, state) ==
    IF node = "reason" THEN should_continue(state.messages, state.tool_call_count)
    ELSE EdgeTarget(node)

(* The graph run of one request on its own, given the replies of the services *)
RECURSIVE run_alone(_, _, _)
run_alone(node, state, responses) ==
    IF responses = <<>> THEN [state |-> state, pc |-> node]
    ELSE run_alone(next_node(node, run_node(node, state, Head(responses))),
                   run_node(node, state, Head(responses)), Tail(responses))

(* Every run reading the state dict of the first run *)
node_input_shared(ts, t) == ts[1].state

(* The state dict a node of run t is called with *)
node_input(ts, t) == ts[t].state

ConcurrentOutcomes(node) ==
    IF node = "memorize"
    THEN {MemorizeOutcome(ExtractReply(<<"User prefers dark mode">>), TRUE, TRUE, TRUE),
          MemorizeOutcome(ExtractFailed, FALSE, FALSE, FALSE)}
    ELSE {MemorizeOutcome(ExtractFailed, FALSE, FALSE, FALSE)}

store_after(node, state, store, o) ==
    IF node = "memorize"
    THEN memorize_node(state.user_input, state.final_response, "A", state.chat_id,
                       store, o).memory
    ELSE store

not_concurrent_vars ==
    <<messages, user_input, chat_id, user_id, env, recall_log, memorize_log, context,
      final_response, tool_call_count, trace, llm_log, capped_events, refused,
      executed, pc, stream_vars, backup_vars, delete_log, retry, backup_run>>

AfterNode(t, node, after, response, store) ==
    /\ turns' = [turns EXCEPT ![t] = [state |-> after, pc |-> next_node(node, after),
                                      seen |-> Append(turns[t].seen, response)]]
    /\ memory' = store
    /\ UNCHANGED not_concurrent_vars

(* One node of one of the runs in flight runs to its end *)
RunNode ==
    \E t \in DOMAIN turns :
        /\ turns[t].pc # "done"
        /\ \E response \in ServiceResponses(turns[t].pc, node_input(turns, t), memory),
              o \in ConcurrentOutcomes(turns[t].pc) :
              AfterNode(t, turns[t].pc,
                        run_node(turns[t].pc, node_input(turns, t), response), response,
                        store_after(turns[t].pc, node_input(turns, t), memory, o))

(* A request arrives while other runs are in flight *)
StartTurn ==
    /\ Len(turns) < MaxTurns
    /\ turns' = Append(turns, [state |-> Requests[Len(turns) + 1], pc |-> "recall",
                               seen |-> <<>>])
    /\ UNCHANGED <<not_concurrent_vars, memory>>

ConcurrentNext == StartTurn \/ RunNode

ConcurrentSpec == BackupInit /\ [][ConcurrentNext]_vars

-----------------------------------------------------------------------------
(* Retried client calls: tools/web_search._safe_search and web_search,
   tools/memory_tool._get_embedding.  Delays are in tenths of a second. *)

MAX_RETRIES == 3
RETRY_DELAY == 2

(* random.random(): a value of [0, 1), in tenths *)
Jitters == 0..9

DISABLED == <<"Web search is disabled via config.">>

NoResults(query) == <<"No results found for:", query, "Try rephrasing your query.">>

Text(value) == [kind |-> "text", value |-> value]

(* The base delay of every retry being RETRY_DELAY *)
search_base_constant(attempt) == RETRY_DELAY * 10

(* The part of the delay before attempt number attempt (counted from 0) that
   is not jitter *)
search_base(attempt) == RETRY_DELAY * (attempt + 1) * 10

Wait(base, delay) == [base |-> base, delay |-> delay]

(* What web_search returns for the list _safe_search returned *)
search_text(results, query) ==
    IF results = <<>> THEN Text(NoResults(query)) ELSE Text(<<"SOURCE 1:", query>>)

(* web_search up to its call of _safe_search *)
web_search_start(enable_web_search) ==
    IF ~ enable_web_search
    THEN [NoRetry EXCEPT !.op = "search", !.status = "returned", !.result = Text(DISABLED)]
    ELSE [NoRetry EXCEPT !.op = "search", !.status = "running"]

(* One iteration of the loop of _safe_search and, when the loop ends, the rest
   of web_search *)
safe_search_attempt(r, outcome, jitter, query) ==
    LET waited == IF r.attempt > 0
                  THEN Append(r.waits, Wait(search_base(r.attempt),
                                            search_base(r.attempt) + jitter))
                  ELSE r.waits
        tried == Append(r.outcomes, outcome)
    IN  IF outcome = "results"
        THEN [r EXCEPT !.waits = waited, !.outcomes = tried, !.status = "returned",
                       !.result = search_text(<<"result">>, query)]
        ELSE IF outcome = "empty"
        THEN [r EXCEPT !.waits = waited, !.outcomes = tried, !.status = "returned",
                       !.result = search_text(<<>>, query)]
        ELSE IF r.attempt + 1 < MAX_RETRIES
        THEN [r EXCEPT !.waits = waited, !.outcomes = tried, !.attempt = r.attempt + 1]
        ELSE [r EXCEPT !.waits = waited, !.outcomes = tried, !.status = "returned",
                       !.result = search_text(<<>>, query)]

max_retries == 3

(* _get_embedding sleeping the same time after every failure *)
wait_time_constant(attempt) == 2 * 10

wait_time(attempt) == (attempt + 1) * 2 * 10

(* One iteration of the loop of _get_embedding *)
get_embedding_attempt(r, outcome) ==
    IF outcome = "ok"
    THEN [r EXCEPT !.outcomes = Append(r.outcomes, outcome), !.status = "returned",
                   !.result = [kind |-> "vector", value |-> <<"embedding">>]]
    ELSE IF r.attempt < max_retries - 1
    THEN [r EXCEPT !.outcomes = Append(r.outcomes, outcome),
                   !.waits = Append(r.waits, Wait(wait_time(r.attempt), wait_time(r.attempt))),
                   !.attempt = r.attempt + 1]
    ELSE [r EXCEPT !.outcomes = Append(r.outcomes, outcome), !.status = "returned",
                   !.result = NoResult]

not_retry_vars ==
    <<turn_vars, pc, stream_vars, backup_vars, delete_log, turns, backup_run>>

(* The search tool is called *)
WebSearch ==
    /\ retry.status # "running"
    /\ \E enable_web_search \in BOOLEAN : retry' = web_search_start(enable_web_search)
    /\ UNCHANGED not_retry_vars

(* The search client makes its next attempt *)
SafeSearchAttempt ==
    /\ retry.op = "search" /\ retry.status = "running"
    /\ \E outcome \in {"results", "empty", "fails"}, jitter \in Jitters :
          retry' = safe_search_attempt(retry, outcome, jitter, "q1.1")
    /\ UNCHANGED not_retry_vars

(* An embedding is requested *)
GetEmbedding ==
    /\ retry.status # "running"
    /\ retry' = [NoRetry EXCEPT !.op = "embed", !.status = "running"]
    /\ UNCHANGED not_retry_vars

(* The embedding client makes its next attempt *)
GetEmbeddingAttempt ==
    /\ retry.op = "embed" /\ retry.status = "running"
    /\ \E outcome \in {"ok", "fails"} : retry' = get_embedding_attempt(retry, outcome)
    /\ UNCHANGED not_retry_vars

RetryNext == WebSearch \/ SafeSearchAttempt \/ GetEmbedding \/ GetEmbeddingAttempt

RetrySpec == BackupInit /\ [][RetryNext]_vars

-----------------------------------------------------------------------------
(* create_backup statement by statement, while turns write to the stores *)

MaxWrites == 2

(* _get_db_stats: the row counts of the database as it is now, zeros when the
   query raises *)
get_db_stats(transcript, query_ok) ==
    IF query_ok THEN transcript ELSE Transcript(0, 0)

(* _get_memory_count: points_count of the collection as it is now, zero when
   the client raises *)
get_memory_count(c, client_ok) ==
    IF client_ok THEN Len(c.points) ELSE 0

not_run_vars ==
    <<turn_vars, pc, stream_vars, db, files, manifest, clock, backup_log, delete_log,
      turns, retry>>

(* A turn stores a message, opens a session or writes a memory record *)
TurnWrites ==
    /\ backup_run.transcript.chats + backup_run.transcript.messages
           + Len(collection.points) <= MaxWrites
    /\ \/ /\ backup_run' = [backup_run EXCEPT !.transcript.messages = @ + 1]
          /\ UNCHANGED collection
       \/ /\ backup_run' = [backup_run EXCEPT !.transcript.chats = @ + 1]
          /\ UNCHANGED collection
       \/ /\ collection' = Collection(Len(collection.points) + 1)
          /\ UNCHANGED backup_run
    /\ UNCHANGED not_run_vars

(* shutil.copy2 of the database file *)
CopyTranscript ==
    /\ backup_run.step \in {"idle", "recorded"}
    /\ backup_run' = [NoBackupRun EXCEPT !.step = "copied",
                                         !.transcript = backup_run.transcript,
                                         !.db_copy = backup_run.transcript]
    /\ UNCHANGED <<not_run_vars, collection>>

(* vectors_exported = _export_qdrant_vectors(vectors_backup_path) *)
ExportStep ==
    /\ backup_run.step = "copied"
    /\ \E export_ok \in BOOLEAN :
          backup_run' = [backup_run EXCEPT
              !.step = "exported",
              !.vectors_exported = export_ok,
              !.points_data = IF export_ok THEN export_qdrant_vectors(collection) ELSE <<>>]
    /\ UNCHANGED <<not_run_vars, collection>>

(* The stats and the BackupInfo built from them *)
RecordStats ==
    /\ backup_run.step = "exported"
    /\ \E query_ok, client_ok \in BOOLEAN :
          backup_run' = [backup_run EXCEPT
              !.step = "recorded",
              !.stats = [chat_count |-> get_db_stats(backup_run.transcript, query_ok).chats,
                         message_count |->
                             get_db_stats(backup_run.transcript, query_ok).messages,
                         memory_count |->
                             get_memory_count(collection, client_ok)]]
    /\ UNCHANGED <<not_run_vars, collection>>

BackupRunNext == TurnWrites \/ CopyTranscript \/ ExportStep \/ RecordStats

BackupRunSpec == BackupInit /\ [][BackupRunNext]_vars

-----------------------------------------------------------------------------
(* A session delete arriving while a turn of the session is in flight *)

(* DELETE /api/chats/{chat_id} for the session of the turn, once, before the
   graph run of the turn has ended *)
DeleteTurnSession ==
    /\ pc \notin {"done", "aborted"}
    /\ delete_log = NoDeleteLog
    /\ \E outcome \in DeleteOutcomes :
          AfterDelete(chat_id, user_id,
                      delete_memories_for_chat(memory, chat_id, user_id, outcome))

RaceInit ==
    /\ InitOver({BaseEnv}, {<<>>, SessionStore(1, 0, 1)}, {"A"}, {<<>>})
    /\ user_input = <<"question">>
    /\ chat_id = "c1"

RaceNext == Next \/ DeleteTurnSession

RaceSpec == RaceInit /\ [][RaceNext]_vars

-----------------------------------------------------------------------------
(* Vocabulary of the properties *)

RECURSIVE Count(_, _)
Count(x, s) ==
    IF s = <<>> THEN 0 ELSE (IF s[1] = x THEN 1 ELSE 0) + Count(x, Tail(s))

LastNode == IF trace = <<>> THEN "none" ELSE Last(trace)

(* The current input is the last human message; what follows it was
   produced by this turn *)
InputPos ==
    CHOOSE p \in 1..Len(messages) :
        /\ messages[p].type = "human"
        /\ \A q \in (p + 1)..Len(messages) : messages[q].type # "human"

TurnMessages == SubSeq(messages, InputPos + 1, Len(messages))

IsAI(m) == m.type = "ai"

IsTool(m) == m.type = "tool"

TurnAIs == SelectSeq(TurnMessages, IsAI)

ToolMessages == SelectSeq(messages, IsTool)

CallIds(m) == [k \in 1..Len(m.tool_calls) |-> m.tool_calls[k].id]

RECURSIVE RequestedIds(_)
RequestedIds(ais) ==
    IF ais = <<>> THEN <<>> ELSE CallIds(ais[1]) \o RequestedIds(Tail(ais))

LLMCalls(kind) ==
    Cardinality({i \in 1..Len(llm_log) : llm_log[i].kind = kind})

Responded == pc \in {"memorize", "done"}

-----------------------------------------------------------------------------
(* C1: the tool-call counter stays within 0..3 and tools is never entered
   with the counter at 3; when every reasoning step of the turn requested
   tools, exactly 3 tool iterations ran, the calls of the 4th request were
   not executed and the turn went to respond holding only the results of
   the first 3 requests. *)
ToolLoopBounded ==
    /\ tool_call_count \in 0..3
    /\ pc = "tools" => tool_call_count < 3
    /\ Count("tools", trace) = tool_call_count
    /\ (/\ pc \in {"respond", "memorize", "done"}
        /\ \A i \in 1..Len(TurnAIs) : TurnAIs[i].tool_calls # <<>>)
       => /\ Len(TurnAIs) = 4
          /\ Count("tools", trace) = 3
          /\ executed = RequestedIds(SubSeq(TurnAIs, 1, 3))
          /\ [i \in 1..Len(ToolMessages) |-> ToolMessages[i].tool_call_id] = executed
          /\ \A k \in 1..Len(TurnAIs[4].tool_calls) :
                \A i \in 1..Len(messages) :
                    messages[i].tool_call_id # TurnAIs[4].tool_calls[k].id

FourthRequestRefused ==
    /\ pc = "done"
    /\ Len(TurnAIs) = 4
    /\ Last(TurnAIs).tool_calls # <<>>
    /\ Len(executed) > 3

(* C2: after a reason step the guard routes to tools exactly when the
   last message is an assistant message carrying at least one tool call and
   the counter is below 3, and to respond otherwise; on an empty message
   sequence it routes to respond. *)
GuardDecision ==
    /\ LastNode = "reason" =>
          /\ pc \in {"tools", "respond"}
          /\ pc = "tools" <=>
                (/\ Last(messages).type = "ai"
                 /\ Len(Last(messages).tool_calls) >= 1
                 /\ tool_call_count < 3)
    /\ should_continue(<<>>, tool_call_count) = "respond"

GuardTakesBothEdges ==
    /\ LastNode = "reason"
    /\ pc = "respond"
    /\ tool_call_count = 2
    /\ Count("reason", trace) = 3

(* C3: a turn runs recall first and once, then reason, then any number of
   (tools, reason) rounds, then respond once, then memorize once, and
   nothing after memorize. *)
NodeOrder ==
    /\ (pc = "recall") <=> (trace = <<>>)
    /\ \A i \in 1..Len(trace) :
          /\ (trace[i] = "recall") <=> (i = 1)
          /\ LET next == IF i < Len(trace) THEN trace[i + 1] ELSE pc
             IN  CASE trace[i] = "recall" -> next = "reason"
                   [] trace[i] = "reason" -> next \in {"tools", "respond"}
                   [] trace[i] = "tools" -> next = "reason"
                   [] trace[i] = "respond" -> next = "memorize"
                   [] trace[i] = "memorize" -> next = "done" /\ i = Len(trace)
                   [] OTHER -> FALSE
    /\ Count("respond", trace) <= 1
    /\ Count("memorize", trace) <= 1
    /\ pc = "done" =>
          /\ Count("recall", trace) = 1
          /\ Count("respond", trace) = 1
          /\ Count("memorize", trace) = 1
          /\ ~ ENABLED Next

TurnWithToolRoundDone ==
    /\ pc = "done"
    /\ Count("tools", trace) = 2
    /\ Len(trace) = 8

(* C4: every started turn eventually reaches done, and no turn runs more
   than 4 reason steps or more than 3 tools steps. *)
TurnTerminates ==
    /\ <>(pc = "done")
    /\ [](Count("reason", trace) <= 4 /\ Count("tools", trace) <= 3)

LongestTurnDone ==
    /\ pc = "done"
    /\ Count("reason", trace) = 4
    /\ Count("tools", trace) = 3
    /\ Last(TurnAIs).tool_calls = <<>>

(* C5: the prompt of every reason step is the instruction template filled
   with the context bundle followed by the whole message sequence
   accumulated before the step, and the step appends the new assistant
   message at the end of the sequence. *)
PromptHoldsWholeSequence ==
    LastNode = "reason" =>
        /\ Last(messages).type = "ai"
        /\ Last(llm_log).kind = "reason"
        /\ Last(llm_log).prompt[1] = SystemMessage(system_content(context))
        /\ \E n \in 1..2 :
              /\ \A i \in 1..n : Last(llm_log).prompt[i].type = "system"
              /\ SubSeq(Last(llm_log).prompt, n + 1, Len(Last(llm_log).prompt))
                     = Front(messages)

(* C6: in the turn's message sequence and in every message list sent to
   the language model, each tool-result message is preceded in that list by
   an assistant message that requested the same tool call. *)
CausallyOrdered(list) ==
    \A i \in 1..Len(list) :
        list[i].type = "tool" =>
            \E j \in 1..(i - 1) :
                /\ list[j].type = "ai"
                /\ \E k \in 1..Len(list[j].tool_calls) :
                      list[j].tool_calls[k].id = list[i].tool_call_id

ToolResultsFollowTheirRequest ==
    /\ CausallyOrdered(messages)
    /\ \A c \in 1..Len(llm_log) : CausallyOrdered(llm_log[c].prompt)

(* C7: a tools step runs every tool call of the last assistant message,
   appends one tool-result message per call, in call order, after the
   existing messages, and adds exactly 1 to the counter however many calls
   there were. *)
ToolsStepEffect ==
    [][pc = "tools" =>
        LET calls == Last(messages).tool_calls
            base == Len(messages)
        IN  /\ Last(messages).type = "ai"
            /\ Len(calls) >= 1
            /\ Len(messages') = base + Len(calls)
            /\ SubSeq(messages', 1, base) = messages
            /\ \A k \in 1..Len(calls) :
                  /\ messages'[base + k].type = "tool"
                  /\ messages'[base + k].tool_call_id = calls[k].id
                  /\ messages'[base + k].content = web_search(calls[k].query)
            /\ executed' = executed \o [k \in 1..Len(calls) |-> calls[k].id]
            /\ tool_call_count' = tool_call_count + 1]_vars

TwoCallsExecuted ==
    /\ LastNode = "tools"
    /\ Len(messages) >= 3
    /\ messages[Len(messages) - 2].type = "ai"
    /\ Len(messages[Len(messages) - 2].tool_calls) = 2
    /\ messages[Len(messages) - 1].type = "tool"
    /\ Last(messages).type = "tool"
    /\ tool_call_count = 1

(* C8: a capped-loop event is logged in a turn exactly when the guard sent
   the turn to respond while the last assistant message still carried tool
   calls. *)
CappedLogIffRefused == (capped_events > 0) <=> refused

(* C9: when respond runs with a last assistant message that has text, the
   final response is that text and respond calls no language model; a turn
   whose model asks for tools once and then answers in text makes 2
   reasoning calls, 1 tools step and no synthesis call. *)
DirectResponse ==
    /\ (Responded /\ Last(messages).type = "ai" /\ Last(messages).content # <<>>)
       => /\ final_response = Last(messages).content
          /\ LLMCalls("synthesis") = 0
          /\ LLMCalls("reason") = Len(llm_log)
    /\ (/\ Responded
        /\ Len(TurnAIs) = 2
        /\ TurnAIs[1].tool_calls # <<>>
        /\ TurnAIs[2].tool_calls = <<>>
        /\ TurnAIs[2].content # <<>>)
       => /\ LLMCalls("reason") = 2
          /\ Count("tools", trace) = 1
          /\ LLMCalls("synthesis") = 0
          /\ Len(llm_log) = 2

TextAfterOneToolRound ==
    /\ pc = "done"
    /\ Len(TurnAIs) = 2
    /\ TurnAIs[1].tool_calls # <<>>
    /\ TurnAIs[2].tool_calls = <<>>
    /\ final_response = TurnAIs[2].content
    /\ final_response # <<>>
    /\ ToolMessages # <<>>

(* C10: when respond runs with a last assistant message without text and
   at least one tool-result message in the sequence, it makes exactly one
   more language-model call, whose prompt carries the user input and the
   contents of all tool-result messages joined in message order, and the
   final response is the output of that call. *)
IsInfix(part, whole) ==
    \E i \in 0..(Len(whole) - Len(part)) : SubSeq(whole, i + 1, i + Len(part)) = part

RECURSIVE JoinedContents(_, _)
JoinedContents(list, n) ==
    IF n = 0 THEN <<>>
    ELSE IF n = 1 THEN list[1].content
    ELSE JoinedContents(list, n - 1) \o <<SEPARATOR>> \o list[n].content

SynthesisResponse ==
    (Responded /\ Last(messages).content = <<>> /\ ToolMessages # <<>>)
    => /\ LLMCalls("synthesis") = 1
       /\ Last(llm_log).kind = "synthesis"
       /\ Last(Last(llm_log).prompt).type = "human"
       /\ IsInfix(<<"User asked:">> \o user_input,
                  Last(Last(llm_log).prompt).content)
       /\ IsInfix(<<"SEARCH RESULTS:">>
                      \o JoinedContents(ToolMessages, Len(ToolMessages))
                      \o <<"INSTRUCTIONS:">>,
                  Last(Last(llm_log).prompt).content)
       /\ final_response = Last(llm_log).output

SynthesisOverThreeRounds ==
    /\ pc = "done"
    /\ Last(messages).content = <<>>
    /\ Len(ToolMessages) >= 4
    /\ tool_call_count = 3
    /\ final_response # <<>>
    /\ LLMCalls("synthesis") = 1

(* C11: the history sent in the synthesis call is exactly the human
   messages and the assistant messages with text of the turn's sequence, in
   their order; no system message, tool-result message or assistant message
   without text of the sequence is in it. *)
KeptByHygiene(m) == m.type = "human" \/ (m.type = "ai" /\ m.content # <<>>)

SynthesisHistory(prompt) == SubSeq(prompt, 2, Len(prompt) - 1)

HygieneFiltered ==
    \A c \in 1..Len(llm_log) :
        llm_log[c].kind = "synthesis" =>
            LET history == SynthesisHistory(llm_log[c].prompt)
            IN  /\ history = SelectSeq(messages, KeptByHygiene)
                /\ \A i \in 1..Len(history) :
                      /\ history[i].type \notin {"system", "tool"}
                      /\ history[i].content # <<>> \/ history[i].type = "human"
                /\ \A i \in 1..Len(messages) :
                      ~ KeptByHygiene(messages[i]) =>
                          \A j \in 1..Len(history) : history[j] # messages[i]

SynthesisWithMixedHistory ==
    /\ pc = "done"
    /\ LLMCalls("synthesis") = 1
    /\ \E i \in 1..Len(messages) : messages[i].type = "system"
    /\ \E i \in 1..Len(messages) : messages[i].type = "ai" /\ messages[i].content = <<>>
    /\ \E i \in 1..Len(TurnAIs) : TurnAIs[i].content # <<>>
    /\ Len(SynthesisHistory(Last(llm_log).prompt)) = 3

(* C12 as stated: the final response is the apology exactly when the turn
   has no messages and no tool results at all. *)
ApologyOnlyWithoutMessages ==
    Responded =>
        ((final_response = APOLOGY) <=> (messages = <<>> /\ ToolMessages = <<>>))

(* C12 amended: the final response is the apology exactly when the last
   message is not an assistant message with text and the sequence holds no
   tool-result message; producing it makes no language-model call. *)
ApologyWhenNothingToSay ==
    Responded =>
        /\ (final_response = APOLOGY) <=>
              (/\ ~ (Last(messages).type = "ai" /\ Last(messages).content # <<>>)
               /\ ToolMessages = <<>>)
        /\ final_response = APOLOGY =>
              /\ LLMCalls("synthesis") = 0
              /\ Len(llm_log) = Count("reason", trace)

ApologyWithMessages ==
    /\ pc = "done"
    /\ final_response = APOLOGY
    /\ Len(messages) >= 2
    /\ Last(messages).type = "ai"
    /\ Last(messages).content = <<>>

(* C13: a failure of an outbound call made during a turn never ends the
   turn with an exception. *)
TurnSurvivesFailures == pc # "aborted"

(* C14: for every reply of the classification call that is not a well-formed
   JSON object (call failure, timeout, error status, missing envelope, text
   that is not JSON, JSON that is not an object), classify_query_intent
   returns exactly the default: intent general, needs_history true. *)
ClassifierDefaultsOnMalformed ==
    (pc # "recall" /\ env.classifier \notin {HttpOk(c) : c \in WellFormedContents}) =>
        recall_log.intent_result = DefaultIntent

(* C15: the tiers of the bundle follow the table: overview gives the
   summary and a window of 2 messages, followup no summary and a window of 5,
   factual the summary only when needs_history and no window, new_topic
   neither, any other intent the summary and a window of 3; without a
   session id summary and window are empty for every intent; the facts are
   fetched for every intent. *)
ExpectedWindow(intent) ==
    CASE intent = "overview" -> 2
      [] intent = "followup" -> 5
      [] intent \in {"factual", "new_topic"} -> 0
      [] OTHER -> 3

ExpectsSummary(intent, needs_history) ==
    CASE intent = "overview" -> TRUE
      [] intent = "followup" -> FALSE
      [] intent = "factual" -> needs_history
      [] intent = "new_topic" -> FALSE
      [] OTHER -> TRUE

LastMessages(n) == SubSeq(StoredTranscript, Len(StoredTranscript) - n + 1, Len(StoredTranscript))

TierTable ==
    \A i \in Intents \cup {"smalltalk"}, b \in BOOLEAN :
        (/\ pc = "reason"
         /\ env.classifier = HttpOk(ObjectText(i, b))
         /\ env.summary_ok /\ env.recent_ok) =>
            /\ context.facts = retrieve_context(user_input, user_id, memory, env)
            /\ context.summary =
                  IF chat_id # None /\ ExpectsSummary(i, b) THEN StoredSummary ELSE <<>>
            /\ context.recent_history =
                  IF chat_id # None THEN LastMessages(ExpectedWindow(i)) ELSE <<>>

FollowupBundle ==
    /\ pc = "reason"
    /\ env.classifier = HttpOk(ObjectText("followup", FALSE))
    /\ chat_id = "c1"
    /\ context.summary = <<>>
    /\ Len(context.recent_history) = 5
    /\ context.facts # <<>>

(* C16 as stated: when the classifier call throws, the bundle has facts
   only: summary and recent window are empty and the intent is general. *)
ClassifierThrowFactsOnly ==
    (pc = "reason" /\ env.classifier.call # "ok") =>
        /\ context.summary = <<>>
        /\ context.recent_history = <<>>
        /\ recall_log.adaptive_result.intent = "general"

(* C16 amended: when the classifier call throws, recall still produces a
   bundle, with intent general and needs_history true, and the bundle is the
   one of the default policy: the facts, and with a session id the summary
   and the window of 3 messages; summary and window are empty only without a
   session id. *)
ClassifierThrowGeneralPolicy ==
    (pc # "recall" /\ env.classifier.call # "ok") =>
        /\ pc = "reason"
        /\ ~ recall_log.adaptive_result.raised
        /\ recall_log.adaptive_result.intent = "general"
        /\ recall_log.adaptive_result.needs_history
        /\ context.facts = retrieve_context(user_input, user_id, memory, env)
        /\ context.summary = IF chat_id # None THEN StoredSummary ELSE <<>>
        /\ context.recent_history = IF chat_id # None THEN LastMessages(3) ELSE <<>>

ClassifierTimeoutWithSession ==
    /\ pc = "reason"
    /\ env.classifier.call = "timeout"
    /\ chat_id = "c1"
    /\ context.summary = StoredSummary
    /\ Len(context.recent_history) = 3

(* C17: when the lookup of exactly one tier fails during recall (facts
   query, summary read or recent-window read), recall does not raise, that
   tier is empty in the bundle and the other two tiers have the values their
   own lookups returned. *)
TierFailureDegradesThatTier ==
    \A i \in Intents, b \in BOOLEAN :
        LET healthy == [env EXCEPT !.client_ok = TRUE, !.embed_ok = TRUE,
                                   !.query_ok = TRUE]
            facts_failed == ~ env.client_ok \/ ~ env.embed_ok \/ ~ env.query_ok
            summary_read == chat_id # None /\ ExpectsSummary(i, b)
            recent_read == chat_id # None /\ ExpectedWindow(i) > 0
            summary_failed == summary_read /\ ~ env.summary_ok
            recent_failed == recent_read /\ ~ env.recent_ok
            one_failed == \/ facts_failed /\ ~ summary_failed /\ ~ recent_failed
                          \/ ~ facts_failed /\ summary_failed /\ ~ recent_failed
                          \/ ~ facts_failed /\ ~ summary_failed /\ recent_failed
        IN  (/\ pc # "recall"
             /\ env.classifier = HttpOk(ObjectText(i, b))
             /\ one_failed) =>
                /\ pc = "reason"
                /\ context.facts =
                      IF facts_failed THEN <<>>
                      ELSE retrieve_context(user_input, user_id, memory, healthy)
                /\ context.summary =
                      IF summary_read /\ ~ summary_failed THEN StoredSummary ELSE <<>>
                /\ context.recent_history =
                      IF recent_read /\ ~ recent_failed
                      THEN LastMessages(ExpectedWindow(i)) ELSE <<>>

(* C18: the text of a memory record is in the facts of the bundle only if
   its score for the query is strictly above 0.5 (a score of exactly 0.5, or
   no score, keeps it out); when no record of the owner passes, when the
   store is empty or unavailable, or when the query embedding fails, the
   facts are empty. *)
Bullet(point) == <<"-">> \o point.memory

ThresholdStrict ==
    pc = "reason" =>
        /\ \A k \in 1..Len(memory) :
              IsInfix(Bullet(memory[k]), context.facts) =>
                  env.scores[k] # NoScore /\ env.scores[k] > 50
        /\ (\/ ~ env.client_ok
            \/ ~ env.embed_ok
            \/ memory = <<>>
            \/ ~ \E k \in 1..Len(memory) :
                    memory[k].user_id = user_id /\ env.scores[k] > 50)
              => context.facts = <<>>

OneHitAboveOneAtThreshold ==
    /\ pc = "reason"
    /\ user_id = "A"
    /\ memory = FullStore
    /\ env.scores[1] = 51
    /\ env.scores[3] = 50
    /\ context.facts = <<FACTS_HEADER>> \o Bullet(PointA1)

(* C19: the facts of a turn owned by A hold only text of records whose owner
   is A, and the bundle is the same as with the records of every other owner
   removed from the store. *)
RECURSIVE KeepAt(_, _, _)
KeepAt(seq, keep, k) ==
    IF k > Len(seq) THEN <<>>
    ELSE (IF k \in keep THEN <<seq[k]>> ELSE <<>>) \o KeepAt(seq, keep, k + 1)

OwnPositions == {k \in 1..Len(memory) : memory[k].user_id = user_id}

OwnerScoped ==
    pc = "reason" =>
        /\ \A k \in 1..Len(memory) :
              memory[k].user_id # user_id => ~ IsInfix(Bullet(memory[k]), context.facts)
        /\ context =
              recall_node(user_input, chat_id, user_id, KeepAt(memory, OwnPositions, 1),
                          [env EXCEPT !.scores = KeepAt(env.scores, OwnPositions, 1)]).context

OtherOwnerScoresHigher ==
    /\ pc = "reason"
    /\ user_id = "A"
    /\ memory = FullStore
    /\ env.scores = <<51, 90, 51>>
    /\ context.facts = <<FACTS_HEADER>> \o Bullet(PointA1) \o Bullet(PointA2)

(* C20: every record persisted by the turn is tagged extracted_fact exactly
   when its text is the sentence fact extraction returned, and tagged
   transcript exactly when its text is the raw pair of user input and
   response stored after a failed or no-fact extraction. *)
PersistedByTurn ==
    {memory[k] : k \in 1..Len(memory)} \ {FullStore[k] : k \in 1..Len(FullStore)}

KindMatchesOrigin ==
    \A record \in PersistedByTurn :
        /\ (record.type = "extracted_fact") <=> (record.memory \in ExtractedSentences)
        /\ (record.type = "transcript") <=>
              (record.memory = <<"User said:">> \o user_input
                                  \o <<"Assistant responded:">> \o final_response)

(* C21: a turn persists at most one record, only in the memorize step that
   follows respond, and only when user input and final response are both
   non-empty and the embedding of the text succeeded; when a text is empty or
   the embedding fails the vector store is unchanged. *)
PersistOnlyAtMemorize ==
    [][/\ memory' # memory =>
            /\ pc = "memorize" /\ LastNode = "respond"
            /\ Count("memorize", trace) = 0
            /\ Len(memory') = Len(memory) + 1
            /\ Front(memory') = memory
            /\ user_input # <<>> /\ final_response # <<>>
            /\ memorize_log'.attempted /\ memorize_log'.embedded
       /\ (pc = "memorize" /\ (user_input = <<>> \/ final_response = <<>>
                                \/ ~ memorize_log'.embedded)) =>
            memory' = memory]_vars

OneRecordPersisted ==
    /\ pc = "done"
    /\ memorize_log.embedded /\ memorize_log.upsert_ok
    /\ memory # <<>>
    /\ Last(memory).user_input = user_input
    /\ Count("memorize", trace) = 1

(* C22: no failure of the memory write (client unavailable, extraction
   failure, embedding failure, upsert failure) leaves memorize as an
   exception: the step ends in done and leaves the fields of the turn, the
   final response among them, as respond left them. *)
MemorizeNeverFails ==
    [][pc = "memorize" =>
          /\ pc' = "done"
          /\ final_response' = final_response
          /\ messages' = messages
          /\ user_input' = user_input
          /\ chat_id' = chat_id
          /\ user_id' = user_id
          /\ context' = context
          /\ tool_call_count' = tool_call_count]_vars

UpsertFailedTurnDone ==
    /\ pc = "done"
    /\ memorize_log.attempted
    /\ memorize_log.embedded
    /\ ~ memorize_log.upsert_ok
    /\ final_response # <<>>

(* C23 as stated: at the end of a turn the summarizer is scheduled exactly
   when the turn has a session id and the message count of the session is a
   positive multiple of 5. *)
ScheduledIffMultipleOfFive ==
    (pc = "closed" /\ stream_log.summarizer = NoSummarizerRun) =>
        ((background_tasks # <<>>) <=>
            (chat_id # None /\ stream_log.count > 0 /\ stream_log.count % 5 = 0))

(* C23 amended: the summarizer is scheduled exactly when the graph run of the
   turn ended without an exception, the turn has a session id, the read of
   the message count succeeded and the count is a positive multiple of 5;
   this happens after respond and memorize; a turn ended by an exception, a
   failed read of the count, a count of 0 or not a multiple of 5, and a turn
   without session id schedule nothing. *)
SchedulingRule ==
    [][/\ Len(background_tasks') > Len(background_tasks) =>
            /\ pc = "done" /\ LastNode = "memorize"
            /\ Count("respond", trace) = 1
            /\ chat_id # None
            /\ stream_log'.count_ok
            /\ stream_log'.count > 0 /\ stream_log'.count % 5 = 0
            /\ background_tasks' = Append(background_tasks, chat_id)
       /\ (/\ pc = "done" /\ pc' = "closed"
           /\ chat_id # None
           /\ stream_log'.count_ok
           /\ stream_log'.count > 0 /\ stream_log'.count % 5 = 0) =>
            background_tasks' = Append(background_tasks, chat_id)
       /\ pc \in {"aborted", "error_sent"} => background_tasks' = background_tasks]_vars

ScheduledAtTenMessages ==
    /\ pc = "closed"
    /\ background_tasks = <<"c1">>
    /\ stream_log.count = 10
    /\ final_response # <<>>

(* C24: a summarizer run either replaces the stored summary by the text the
   model returned (stripped; the old summary is not kept in front of it) or,
   when a read, the model call, the reply or the write fails or the session
   has no messages, leaves the stored summary as it was; the run does not
   raise. *)
SummarizerSucceeded(o) ==
    /\ o.summary_ok /\ o.recent_ok /\ o.recent_history # <<>>
    /\ o.llm = "ok" /\ o.write_ok

SummaryOverwrittenOrKept ==
    [][(pc = "closed" /\ background_tasks # <<>>
          /\ background_tasks' = Tail(background_tasks)) =>
          /\ pc' = "closed"
          /\ stored_summary' =
                IF SummarizerSucceeded(stream_log'.summarizer)
                THEN SelectSeq(stream_log'.summarizer.content, LAMBDA t : t # WS)
                ELSE stored_summary]_vars

SummaryReplaced ==
    /\ pc = "closed"
    /\ background_tasks = <<>>
    /\ stream_log.summarizer = SummarizerSuccess(<<WS, "new summary", WS>>)
    /\ stored_summary = <<"new summary">>

-----------------------------------------------------------------------------
(* Vocabulary of the durability properties *)

(* Every snapshot file a manifest entry names is in the backup directory *)
SnapshotsExist(m, f) ==
    \A k \in 1..Len(m) :
        /\ f[m[k].db_file].exists
        /\ m[k].vectors_file # NoName => f[m[k].vectors_file].exists

(* No snapshot file of an id that is not in the manifest is left *)
EvictedRemoved(m, f) ==
    \A id \in BackupIds \ ManifestIds(m) :
        ~ f[db_backup_name(id)].exists /\ ~ f[vectors_backup_name(id)].exists

RetentionHolds(m, f) ==
    /\ Len(m) <= RetentionCount
    /\ SnapshotsExist(m, f)
    /\ EvictedRemoved(m, f)

CreateReturned(ok) == backup_log'.op = "create" /\ backup_log'.ok = ok

(* C25: along successful create_backup calls the manifest holds at most
   RetentionCount entries, the newest ones, the snapshot files of every entry
   it holds exist, and the snapshot files of evicted entries are gone: a
   successful call made where this holds leaves it holding. *)
RetentionKept ==
    [][CreateReturned(TRUE) /\ RetentionHolds(manifest, files)
          => /\ RetentionHolds(manifest', files')
             /\ manifest' = SubSeq(<<manifest'[1]>> \o manifest, 1,
                                   Min(Len(manifest) + 1, RetentionCount))]_vars

(* C26: create_backup is all-or-nothing: whenever it returns failure, the
   persisted manifest is the one before the call and every snapshot file
   that a manifest entry named before the call still exists. *)
CreateAllOrNothing ==
    [][CreateReturned(FALSE)
          => /\ manifest' = manifest
             /\ SnapshotsExist(manifest, files) => SnapshotsExist(manifest', files')]_vars

RestoreReturned(ok) == backup_log'.op = "restore" /\ backup_log'.ok = ok

(* The entry restore_backup(id) selects in the manifest it loads *)
EntryOf(id) == manifest[find_backup(manifest, id)]

PointSet(points) == {points[k] : k \in 1..Len(points)}

(* The stores hold what the snapshot files of the entry held at the call *)
RestoredFrom(entry) ==
    /\ files[entry.db_file].exists
    /\ db' = files[entry.db_file].db
    /\ entry.vectors_file # NoName
          => /\ files[entry.vectors_file].exists
             /\ PointSet(collection'.points) = PointSet(files[entry.vectors_file].points)

(* C27: whenever restore_backup(id) returns success, the transcript store is
   the transcript snapshot of entry id and, when the entry has a vector
   snapshot, the collection holds exactly the points of that snapshot, also
   when it holds none; no snapshot file was missing and the vector import
   did not fail. *)
RestoreSuccessMeansRestored ==
    [][RestoreReturned(TRUE)
          => /\ RestoredFrom(EntryOf(backup_log'.id))
             /\ ~ backup_log'.missing
             /\ backup_log'.import # "failed"]_vars

RestoreOrRollbackReturned(ok) ==
    backup_log'.op \in {"restore", "rollback"} /\ backup_log'.ok = ok

StoresUntouched ==
    db' = db /\ collection' = collection /\ manifest' = manifest

(* C28: whenever restore_backup or rollback_latest returns failure, the
   transcript store, the vector collection and the manifest are as before the
   call; for an id that is not in the manifest, and for a rollback on an
   empty manifest, no safety backup is made either. *)
RestoreFailureLeavesStores ==
    [][RestoreOrRollbackReturned(FALSE)
          => /\ StoresUntouched
             /\ find_backup(manifest, backup_log'.id) = 0
                   => backup_log'.safety = "none" /\ files' = files]_vars

Exported == backup_log'.op = "export" /\ backup_log'.ok

Imported == backup_log'.op = "import" /\ backup_log'.ok

(* Every point of the collection is in the list once, under its own id *)
SamePoints(points, points_data) ==
    /\ Len(points_data) = Len(points)
    /\ PointSet(points_data) = PointSet(points)

(* C29: the export writes every point of the collection exactly once, and
   the import of a snapshot leaves a collection that holds exactly the
   triples of the snapshot, each once, whatever the collection held and also
   for a snapshot without points; the dimension of the recreated collection
   is the length of the first exported vector. *)
RoundTripReproduces ==
    [][/\ Exported => SamePoints(collection.points, files'[SnapshotName].points)
       /\ Imported
             => /\ SamePoints(files[SnapshotName].points, collection'.points)
                /\ files[SnapshotName].points # <<>>
                      => collection'.dim = Len(files[SnapshotName].points[1].vector)]_vars

RestoreModified == db' # db \/ collection' # collection

(* The newest manifest entry after the call is a complete snapshot of the
   stores as they were before the call *)
SafetyBackupOfPreState ==
    /\ manifest' # <<>>
    /\ manifest'[1].vectors_file # NoName
    /\ files'[manifest'[1].db_file] = DbFile(db)
    /\ files'[manifest'[1].vectors_file] = VectorsFile(export_qdrant_vectors(collection))

(* C30: with the safety backup switched on, every restore_backup call that
   modifies the transcript store or the collection has first recorded a
   complete safety backup of the state before the call as the newest manifest
   entry; when the safety backup was not created the restore changes
   nothing. *)
RestoreIsUndoable ==
    [][auto_backup_before_restore /\ backup_log'.op = "restore" /\ RestoreModified
          => backup_log'.safety = "created" /\ SafetyBackupOfPreState]_vars

(* Entries nearer the front were created no earlier *)
NewestFirst(m) == \A i, j \in 1..Len(m) : i < j => m[i].id >= m[j].id

(* The call of this step left what r describes *)
CallLeft(r) ==
    /\ backup_log'.ok = r.ok
    /\ backup_log'.safety = r.safety
    /\ db' = r.st.db
    /\ collection' = r.st.collection
    /\ files' = r.st.files
    /\ manifest' = r.st.manifest

(* C31: the manifest is ordered newest first after every create_backup,
   restore_backup and rollback_latest; a successful create_backup puts its
   entry at index 0 and keeps the order of the others; rollback_latest has
   the effect and the result of restore_backup applied to the id of the entry
   at index 0, the most recently created backup, and fails on an empty
   manifest. *)
RollbackIsRestoreOfNewest ==
    [][/\ NewestFirst(manifest) => NewestFirst(manifest')
       /\ CreateReturned(TRUE)
             => /\ manifest'[1].id = clock
                /\ manifest' = SubSeq(<<manifest'[1]>> \o manifest, 1, Len(manifest'))
       /\ backup_log'.op = "rollback"
             => IF manifest = <<>> THEN ~ backup_log'.ok /\ StoresUntouched
                ELSE /\ \A k \in 1..Len(manifest) : manifest[1].id >= manifest[k].id
                     /\ \E o \in RestoreOutcomes :
                            CallLeft(restore_backup(CurrentStores, manifest[1].id, clock, o))]_vars

RolledBackToNewestOfTwo ==
    /\ backup_log.op = "rollback"
    /\ backup_log.ok
    /\ backup_log.import = "ok"
    /\ Len(manifest) = 2
    /\ manifest[1].id # manifest[2].id

SessionRecords(store, chat) == {k \in 1..Len(store) : store[k].chat_id = chat}

OutsideSession(chat) == LET other(p) == p.chat_id # chat IN SelectSeq(memory, other)

(* C32: after a session is deleted no record of that session is in the
   vector store, however many records it owned and whichever owner they
   carry, and the records of other sessions are as before. *)
CascadeDeletesSession ==
    [][delete_log'.chat # NoChat => memory' = OutsideSession(delete_log'.chat)]_vars

IsPrefix(s, t) == Len(s) <= Len(t) /\ SubSeq(t, 1, Len(s)) = s

Appended == SubSeq(messages', Len(messages) + 1, Len(messages'))

(* C33: each node changes only its own Turn fields: recall only the context
   bundle; reason only appends one assistant message; tools only appends
   tool-result messages and adds one to the counter; respond only sets
   final_response; memorize changes no Turn field.  So the message sequence
   only grows by appending, the context bundle is never modified after
   recall, and user input, session id and owner id never change. *)
FrameEffects ==
    [][/\ pc = "recall"
             => UNCHANGED <<messages, final_response, tool_call_count>>
       /\ pc = "reason"
             => /\ Len(messages') = Len(messages) + 1
                /\ Last(messages').type = "ai"
                /\ UNCHANGED <<context, final_response, tool_call_count>>
       /\ pc = "tools"
             => /\ \A k \in 1..Len(Appended) : Appended[k].type = "tool"
                /\ tool_call_count' = tool_call_count + 1
                /\ UNCHANGED <<context, final_response>>
       /\ pc = "respond"
             => UNCHANGED <<messages, context, tool_call_count>>
       /\ pc = "memorize"
             => UNCHANGED <<messages, context, final_response, tool_call_count>>
       /\ IsPrefix(messages, messages')
       /\ pc # "recall" => context' = context
       /\ UNCHANGED <<user_input, chat_id, user_id>>]_vars

TurnDoneThroughEveryNode ==
    /\ pc = "done"
    /\ trace = <<"recall", "reason", "tools", "reason", "respond", "memorize">>
    /\ context # EmptyContext
    /\ final_response # <<>>

(* C34: when turns run concurrently with their steps interleaved, each
   turn's messages, tool-call counter, context bundle, final response and
   position are those of the same request run alone against the replies it
   received, and each turn's counter stays within the limit. *)
TurnsRunAsAlone ==
    \A t \in DOMAIN turns :
        /\ [state |-> turns[t].state, pc |-> turns[t].pc]
               = run_alone("recall", Requests[t], turns[t].seen)
        /\ turns[t].state.tool_call_count <= MAX_TOOL_CALLS

TwoTurnsInFlight ==
    /\ Len(turns) = MaxTurns
    /\ turns[1].pc = "reason" /\ turns[1].state.tool_call_count = MAX_TOOL_CALLS
    /\ turns[2].pc = "tools" /\ turns[2].state.tool_call_count = 1

(* Attempts of the call in progress that failed *)
FailedAttempts == Len(SelectSeq(retry.outcomes, LAMBDA o : o = "fails"))

(* The call made its attempts one after the other and stopped at the first
   that did not fail *)
StopsAtFirstSuccess ==
    /\ Len(retry.outcomes) <= MAX_RETRIES
    /\ \A k \in 1..(Len(retry.outcomes) - 1) : retry.outcomes[k] = "fails"
    /\ retry.status = "running" =>
          FailedAttempts = Len(retry.outcomes) /\ Len(retry.outcomes) < MAX_RETRIES

SearchReturnsText ==
    retry.status = "returned" =>
        /\ retry.result.kind = "text"
        /\ retry.outcomes = <<>> <=> retry.result.value = DISABLED
        /\ FailedAttempts = MAX_RETRIES => retry.result.value = NoResults("q1.1")

(* C35: a web search makes at most 3 attempts, stops at the first successful
   one, waits before each retry and never before the first attempt, each
   retry's base delay being at least double the previous one, with jitter;
   when every attempt fails or search is disabled it returns the sentinel
   text, a disabled search making no attempt. *)
SearchBackoffDoubles ==
    retry.op = "search" =>
        /\ StopsAtFirstSuccess
        /\ Len(retry.waits) = IF retry.outcomes = <<>> THEN 0 ELSE Len(retry.outcomes) - 1
        /\ \A k \in 1..Len(retry.waits) :
              /\ retry.waits[k].delay - retry.waits[k].base \in Jitters
              /\ k > 1 => retry.waits[k].base >= 2 * retry.waits[k - 1].base
        /\ SearchReturnsText

(* C35 amended: as above, but each retry's delay is longer than the previous
   one by a base delay growing by RETRY_DELAY seconds per retry (4 s, then
   6 s) plus a jitter below one second. *)
SearchBackoffGrows ==
    retry.op = "search" =>
        /\ StopsAtFirstSuccess
        /\ Len(retry.waits) = IF retry.outcomes = <<>> THEN 0 ELSE Len(retry.outcomes) - 1
        /\ \A k \in 1..Len(retry.waits) :
              /\ retry.waits[k].delay - retry.waits[k].base \in Jitters
              /\ retry.waits[k].base = RETRY_DELAY * (k + 1) * 10
              /\ k > 1 => retry.waits[k].delay > retry.waits[k - 1].delay
        /\ SearchReturnsText

SearchGaveUp ==
    /\ retry.op = "search" /\ retry.status = "returned"
    /\ FailedAttempts = MAX_RETRIES
    /\ Len(retry.waits) = MAX_RETRIES - 1
    /\ retry.waits[1].delay = retry.waits[1].base + 9
    /\ retry.waits[2].delay = retry.waits[2].base

(* C36: the Embedding Client makes at most 3 attempts per request, returns
   the vector of the first successful attempt, waits 2 s and then 4 s between
   consecutive attempts and not after the last failed one, and returns the
   no-embedding value when all 3 attempts fail. *)
EmbeddingRetryDiscipline ==
    retry.op = "embed" =>
        /\ Len(retry.outcomes) <= 3
        /\ \A k \in 1..(Len(retry.outcomes) - 1) : retry.outcomes[k] = "fails"
        /\ retry.status = "running" =>
              FailedAttempts = Len(retry.outcomes) /\ Len(retry.outcomes) < 3
        /\ Len(retry.waits) = IF FailedAttempts < 3 THEN FailedAttempts ELSE 2
        /\ \A k \in 1..Len(retry.waits) :
              /\ retry.waits[k].delay = <<20, 40>>[k]
              /\ k > 1 => retry.waits[k].delay > retry.waits[k - 1].delay
        /\ retry.status = "returned" =>
              /\ retry.result.kind \in {"vector", "none"}
              /\ retry.result.kind = "vector" <=> Last(retry.outcomes) = "ok"
              /\ retry.result.kind = "none" <=> FailedAttempts = 3

EmbeddingGaveUp ==
    /\ retry.op = "embed" /\ retry.status = "returned"
    /\ retry.result = NoResult
    /\ FailedAttempts = 3
    /\ Len(retry.waits) = 2

(* No two entries of the manifest carry the same id or name the same
   snapshot file *)
DistinctEntries(m) ==
    \A j, k \in 1..Len(m) :
        j # k => m[j].id # m[k].id /\ m[j].db_file # m[k].db_file

(* C37: after any sequence of create_backup calls, also two in the same
   second, the ids of the manifest are pairwise distinct and no two entries
   name the same snapshot file, and a call never deletes a snapshot file that
   an entry it keeps names. *)
SnapshotsNeverShared ==
    [][backup_log'.op = "create"
          => /\ DistinctEntries(manifest')
             /\ \A k \in 1..Len(manifest') :
                   /\ files[manifest'[k].db_file].exists
                         => files'[manifest'[k].db_file].exists
                   /\ (manifest'[k].vectors_file # NoName
                          /\ files[manifest'[k].vectors_file].exists)
                         => files'[manifest'[k].vectors_file].exists]_vars

(* restore_backup is called for the oldest entry of a full manifest and its
   safety backup is created *)
RestoreOfOldestAtCap ==
    /\ RestoreReturned(TRUE)
    /\ backup_log'.safety = "created"
    /\ backup_log'.import # "failed"
    /\ Len(manifest) = RetentionCount
    /\ DistinctEntries(manifest)
    /\ SnapshotsExist(manifest, files)
    /\ backup_log'.id = Last(manifest).id

(* C38: with the safety backup switched on and the manifest holding as many
   entries as the retention cap, restore_backup for the oldest entry restores
   from that entry's snapshot: the safety backup made inside the call neither
   evicts the entry nor deletes its snapshot files before they are copied
   back. *)
OldestRestorableAtCap ==
    [][RestoreOfOldestAtCap
          => /\ RestoredFrom(Last(manifest))
             /\ ~ backup_log'.missing
             /\ backup_log'.id \in ManifestIds(manifest')
             /\ files'[Last(manifest).db_file].exists]_vars

(* C39: the chat, message and memory counts recorded in a manifest entry are
   the numbers of chats, messages and points held by the entry's snapshot
   files, also when turns write to the stores while create_backup is between
   its copy, its export and its counts, and also when the export failed. *)
CountsMatchSnapshot ==
    backup_run.step = "recorded" =>
        /\ backup_run.stats.chat_count = backup_run.db_copy.chats
        /\ backup_run.stats.message_count = backup_run.db_copy.messages
        /\ backup_run.stats.memory_count =
               IF backup_run.vectors_exported THEN Len(backup_run.points_data) ELSE 0

(* C40: when a session delete runs while a turn of that session is in
   flight, then once the delete has left no MemoryRecord with the session id
   none exists afterwards: a memorize step running after the cascade delete
   scanned the vector store leaves no record of the deleted session. *)
NoOrphanAfterDelete ==
    [][(delete_log.chat = chat_id /\ SessionRecords(memory, chat_id) = {})
          => SessionRecords(memory', chat_id) = {}]_vars

====
